---- MODULE Spec2Model ----
(***************************************************************************)
(* A model of Finch: the solidification event recorder                     *)
(* (src/src/Finch_SolidificationData.hpp) driven by the Layer time step,   *)
(* and the scan-path evaluator (src/src/MovingBeam/MovingBeam.cpp); the    *)
(* boundary conditions, the halo exchange and the solver on small grids,   *)
(* the output schedule of Layer::run, the bounding-box reductions, the     *)
(* construction of the scan path, the recorder of a run without sampling,  *)
(* the solver kernel by kernel and the constructors of Boundary.  Each     *)
(* part has its own specification; the variables of the other parts keep   *)
(* their idle values in it.                                                *)
(*                                                                         *)
(* Numbers.  The code computes in double precision; the model computes in  *)
(* integers with units chosen so that every quotient it takes is exact:    *)
(*   - recorder times are in ticks of 1/300 s (dt_ = 30 ticks = 0.1 s),    *)
(*     the interpolation factor m is held in units of 1/MScale,            *)
(*     the cooling rate is in K/s, temperatures are in K;                  *)
(*   - scan-path times are in units of eps (eps = 1), lengths in units of  *)
(*     one speed unit times eps.                                           *)
(***************************************************************************)
EXTENDS Integers, Sequences, FiniteSets, TLC

(***************************************************************************)
(* Bounds of the model.                                                    *)
(***************************************************************************)
\* number of Layer time steps explored
MaxSteps == 3

(***************************************************************************)
(* Inputs of the recorder (Inputs, Grid).                                  *)
(***************************************************************************)
\* owned index space of the (single-rank) grid, along x; halo width 1
Cells == {1, 2}
\* first and last index of the local array, the ghost nodes
GhostLo == 0
GhostHi == 3
Nodes == GhostLo .. GhostHi

\* inputs.properties.liquidus
liquidus_ == 1700
\* inputs.time.time_step, in ticks
dt_ == 30
\* inputs.time.start_time, in ticks (0.9 s)
start_time == 270
\* inputs.space.cell_size
cell_size_ == 50
\* ticks per second: the time step is 0.1 s, the cooling rate is in K/s
TicksPerSecond == 10 * dt_
\* the interpolation factor m is held in units of 1/MScale, so that m * dt_
\* is a whole number of ticks
MScale == dt_
\* number of components of an event row
nCmpts == 9

\* temperatures a node can take after a solve
Temps == {1500, 1700, 1800, 2000}

\* an event row that was allocated and never written
Uninit == << >>
\* no writer recorded for a row
NoWriter == << >>

VARIABLES
    \* Layer / Inputs
    step,            \* number of Layer steps taken
    time,            \* inputs.time.time, advanced by Layer::step
    \* Grid
    T,               \* temperature, owned and ghost nodes
    T0,              \* previous temperature
    \* SolidificationData
    time_,           \* the member time_ set by the constructor
    count,           \* count( 0 )
    capacity,        \* capacity
    events,          \* events, one entry per row
    tm_view,         \* tm_view, per owned node
    count_old_host,  \* local of update: the count when update was entered
    upc,             \* where update is: "idle", "pass1", "pass2"
    kpc,             \* per node, where its kernel instance is
    cur,             \* per node, the kernel's local current_count
    \* history variables (not program state)
    writer,          \* per row: who wrote it last
    melt,            \* per node: its most recent melt crossing
    cap0,            \* capacity when update was entered
    retCount         \* count at the last return of update

sdVars == << step, time, T, T0, time_, count, capacity, events, tm_view,
             count_old_host, upc, kpc, cur, writer, melt, cap0, retCount >>

VARIABLES
    \* MovingBeam
    path,            \* path, the sentinel segment first
    endTime_,        \* endTime_
    index_,          \* index_
    position_,       \* position_
    power_,          \* power_
    \* history variables (not program state)
    lastT,           \* argument of the last call of move, -1 before the first
    mono             \* the calls of move so far were in non-decreasing time

mbVars == << path, endTime_, index_, position_, power_, lastT, mono >>

VARIABLES
    \* Layer / SolidificationData, the default constructed recorder
    enabled_,        \* the member enabled_
    \* MovingBeam construction
    loadStatus,      \* "constructed", or "error" when readPath has thrown
    pFile_,          \* pFile_: the scan-path file, as it is on disk
    \* SolidificationData::write
    files_written    \* the files write has opened for writing

VARIABLES
    \* Grid / Boundary configuration
    boundary_int,    \* boundary_int, per plane: 0, 1 or 2
    initial_temperature,
    boundary_types,  \* boundary_types, per plane: the strings given
    bstatus          \* "constructed", or "error" when the constructor threw

cfgVars == << boundary_int, initial_temperature, boundary_types, bstatus >>

VARIABLES
    \* Boundary::update on the local grid of one rank
    Tb,              \* the temperature view, owned and ghost nodes
    bdone,           \* the kernel instances (plane, node) that have run
    bpc,             \* "idle" or "updating"
    nupd,            \* number of calls of update that have completed
    \* history variables (not program state)
    Tb_start         \* the view when the current call of update began

bdVars == << Tb, bdone, bpc, nupd, Tb_start >>

VARIABLES
    \* Grid, Solver and Layer::step on one rank and on two ranks along x
    hT,              \* per rank: the temperature view T
    hT0,             \* per rank: the previous temperature view T0
    hpc,             \* where Layer::step is: "idle", "solved", "bounded"
    hstep,           \* number of Layer steps taken
    \* history variables (not program state)
    heated           \* the beam power was not zero in some step

hlVars == << hT, hT0, hpc, hstep, heated >>

VARIABLES
    \* Layer::run
    num_steps,       \* inputs.time.num_steps
    output,          \* inputs.time.output: total_steps and interval
    monitor,         \* inputs.time.monitor: total_steps and interval
    n_,              \* the loop variable n of Layer::run
    snapshots,       \* the calls grid.output( step, time ) made, in order
    monitor_log      \* the calls time_monitor.write( step ) made, in order

rnVars == << num_steps, output, monitor, n_, snapshots, monitor_log >>

VARIABLES
    \* SolidificationData on every rank, and the bounds last returned
    rk_events,       \* per rank: events
    rk_count,        \* per rank: count( 0 )
    data_bounds_low, \* per rank: what getLowerBounds returned
    data_bounds_high \* per rank: what getUpperBounds returned

bxVars == << rk_events, rk_count, data_bounds_low, data_bounds_high >>

VARIABLES
    \* Solver::solve on the local grid of one rank, kernel by kernel
    sT,              \* the temperature view T
    sT0,             \* the previous temperature view T0
    sdone,           \* the owned nodes whose kernel instance has run
    spc,             \* "ready" or "solving"
    sbeam,           \* power_ and position_ of the solver
    nsolve,          \* number of Layer steps taken
    \* history variables (not program state)
    sT_start         \* T when the current solve was launched

slVars == << sT, sT0, sdone, spc, sbeam, nsolve, sT_start >>

vars == << sdVars, mbVars, enabled_, loadStatus, pFile_, files_written, slVars, cfgVars, bdVars, hlVars,
           rnVars, bxVars >>

\* the variables a component leaves alone: all but its own
notSD == << mbVars, enabled_, loadStatus, pFile_, files_written, slVars, cfgVars, bdVars, hlVars, rnVars,
            bxVars >>
notMB == << sdVars, enabled_, loadStatus, pFile_, files_written, slVars, cfgVars, bdVars, hlVars, rnVars,
            bxVars >>
notBD == << sdVars, mbVars, enabled_, loadStatus, pFile_, files_written, slVars, hlVars, rnVars, bxVars >>
notHL == << sdVars, mbVars, enabled_, loadStatus, pFile_, files_written, slVars, bdVars, rnVars, bxVars >>
notRN == << sdVars, mbVars, enabled_, loadStatus, pFile_, files_written, slVars, cfgVars, bdVars, hlVars,
            bxVars >>
notBX == << sdVars, mbVars, enabled_, loadStatus, pFile_, files_written, slVars, cfgVars, bdVars, hlVars,
            rnVars >>
notSL == << sdVars, mbVars, enabled_, loadStatus, pFile_, files_written,
            cfgVars, bdVars, hlVars, rnVars, bxVars >>

(***************************************************************************)
(* Grid: the field with its ghost nodes.  On a single rank with adiabatic  *)
(* faces updateBoundaries copies the adjacent owned node into each ghost.  *)
(***************************************************************************)
WithGhosts(f) ==
    [ i \in Nodes |-> IF i = GhostLo THEN f[GhostLo + 1]
                      ELSE IF i = GhostHi THEN f[GhostHi - 1]
                      ELSE f[i] ]

\* T( i, j, k, 0 ): the model grid is one node wide in y and z, so the
\* neighbours in y and z are ghosts, copies of the owned node
TView(f, i, j, k) == f[i]

\* local_mesh.coordinates( Node, idx, pt ): low corner of the local mesh
\* (one ghost below the owned nodes) plus index times cell size
coordinates(i) == << (i - 1) * cell_size_, 0, 0 >>

(***************************************************************************)
(* SolidificationData::updateEvents, the per node kernel.                  *)
(***************************************************************************)
Max(a, b) == IF a >= b THEN a ELSE b
Min(a, b) == IF a <= b THEN a ELSE b

\* m = ( temp - liquidus_ ) / ( temp - temp0 ), in units of 1/MScale
InterpFactor(temp, temp0) ==
    ((temp - liquidus_) * MScale) \div (temp - temp0)

\* m = fmin( fmax( m, 0.0 ), 1.0 )
ClampFactor(m) == Min(Max(m, 0), MScale)

\* t - m * dt_
CrossingTime(t, temp, temp0) ==
    t - (ClampFactor(InterpFactor(temp, temp0)) * dt_) \div MScale

\* the time the kernel uses: the member time_
KernelTime == time_

IsSolidification(temp, temp0) == temp <= liquidus_ /\ temp0 > liquidus_
IsMelt(temp, temp0) == temp > liquidus_ /\ temp0 <= liquidus_

\* ( temp0 - temp ) / dt_
CoolingRate(temp, temp0) == ((temp0 - temp) * TicksPerSecond) \div dt_

\* ( T( i + 1 ) - T( i - 1 ) ) / ( 2.0 * cell_size_ )
Gradient(hi, lo) == (hi - lo) \div (2 * cell_size_)

\* the nine components written into row current_count
EventRow(i) ==
    << coordinates(i)[1], coordinates(i)[2], coordinates(i)[3],
       tm_view[i],
       CrossingTime(KernelTime, T[i], T0[i]),
       CoolingRate(T[i], T0[i]),
       Gradient(TView(T, i + 1, 0, 0), TView(T, i - 1, 0, 0)),
       Gradient(TView(T, i, 1, 0), TView(T, i, -1, 0)),
       Gradient(TView(T, i, 0, 1), TView(T, i, 0, -1)) >>

\* history: what is known of the event when its row is written
WriterOf(i) ==
    [ cell |-> i, step |-> step, pass |-> IF upc = "pass1" THEN 1 ELSE 2,
      meltStep |-> melt[i].step, tmTrue |-> melt[i].tm,
      tsTrue |-> CrossingTime(time, T[i], T0[i]) ]

\* a fetch_add that returns the old value and does not store the sum
FetchAddLost(c) == c

\* Kokkos::atomic_fetch_add( &count( 0 ), 1 ): the value it stores
FetchAdd(c) == c + 1

\* first half of the kernel: read the temperatures, take the branch, and in
\* the solidification branch atomic_fetch_add( &count( 0 ), 1 )
KernelDetect(i) ==
    /\ upc \in {"pass1", "pass2"}
    /\ kpc[i] = "start"
    /\ IF IsSolidification(T[i], T0[i])
       THEN /\ cur' = [cur EXCEPT ![i] = count]
            /\ count' = FetchAdd(count)
            /\ kpc' = [kpc EXCEPT ![i] = "fetched"]
            /\ UNCHANGED << tm_view, melt >>
       ELSE IF IsMelt(T[i], T0[i])
       THEN /\ tm_view' = [tm_view EXCEPT
                             ![i] = CrossingTime(KernelTime, T[i], T0[i])]
            /\ melt' = [melt EXCEPT
                          ![i] = [step |-> step,
                                  tm |-> CrossingTime(time, T[i], T0[i])]]
            /\ kpc' = [kpc EXCEPT ![i] = "done"]
            /\ UNCHANGED << cur, count >>
       ELSE /\ kpc' = [kpc EXCEPT ![i] = "done"]
            /\ UNCHANGED << cur, count, tm_view, melt >>
    /\ UNCHANGED << step, time, T, T0, time_, capacity, events,
                    count_old_host, upc, writer, cap0, retCount >>
    /\ UNCHANGED notSD

\* second half of the kernel: if ( current_count < capacity ) write the row
KernelRecord(i) ==
    /\ upc \in {"pass1", "pass2"}
    /\ kpc[i] = "fetched"
    /\ IF cur[i] < capacity
       THEN /\ events' = [events EXCEPT ![cur[i] + 1] = EventRow(i)]
            /\ writer' = [writer EXCEPT ![cur[i] + 1] = WriterOf(i)]
       ELSE UNCHANGED << events, writer >>
    /\ kpc' = [kpc EXCEPT ![i] = "done"]
    /\ cur' = [cur EXCEPT ![i] = 0]
    /\ UNCHANGED << step, time, T, T0, time_, count, capacity, tm_view,
                    count_old_host, upc, melt, cap0, retCount >>
    /\ UNCHANGED notSD

(***************************************************************************)
(* SolidificationData::update, the host side.                              *)
(***************************************************************************)
\* a resize that allocates anew and keeps no row
ResizeLosing(ev, cap, fill) == [ r \in 1 .. cap |-> fill ]

\* Kokkos::resize( WithoutInitializing, events, capacity, nCmpts ): the rows
\* both extents have in common keep their content, the others are not set
Resize(ev, cap, fill) ==
    [ r \in 1 .. cap |-> IF r <= Len(ev) THEN ev[r] ELSE fill ]

\* a capacity that just fits the events counted
NewCapacityExact(new_count) == new_count

\* capacity = 2.0 * new_count
NewCapacity(new_count) == 2 * new_count

\* a retry that does not put the count back
RestoredCountKept(old, new_count) == new_count

\* Kokkos::deep_copy( count, count_old_host( 0 ) )
RestoredCount(old, new_count) == old

\* new_count / capacity > 0.9, a quotient of two int
NearCapacity(new_count, cap) == (new_count \div cap) * 10 > 9

AllDone == \A i \in Cells : kpc[i] = "done"

\* the first pass has ended: lines 178-204
PassOneEnd ==
    /\ upc = "pass1"
    /\ AllDone
    /\ IF count >= capacity
       THEN /\ capacity' = NewCapacity(count)
            /\ events' = Resize(events, capacity', Uninit)
            /\ writer' = Resize(writer, capacity', NoWriter)
            /\ count' = RestoredCount(count_old_host, count)
            /\ upc' = "pass2"
            /\ kpc' = [i \in Cells |-> "start"]
            /\ UNCHANGED retCount
       ELSE /\ IF NearCapacity(count, capacity)
               THEN /\ capacity' = NewCapacity(count)
                    /\ events' = Resize(events, capacity', Uninit)
                    /\ writer' = Resize(writer, capacity', NoWriter)
               ELSE UNCHANGED << capacity, events, writer >>
            /\ upc' = "idle"
            /\ retCount' = count
            /\ UNCHANGED << count, kpc >>
    /\ UNCHANGED << step, time, T, T0, time_, tm_view, count_old_host, cur,
                    melt, cap0 >>
    /\ UNCHANGED notSD

\* the second pass has ended: update returns
PassTwoEnd ==
    /\ upc = "pass2"
    /\ AllDone
    /\ upc' = "idle"
    /\ retCount' = count
    /\ UNCHANGED << step, time, T, T0, time_, count, capacity, events,
                    tm_view, count_old_host, kpc, cur, writer, melt, cap0 >>
    /\ UNCHANGED notSD

(***************************************************************************)
(* Layer::step up to the call of update: the time is advanced, T is copied *)
(* to T0, the solver writes the owned nodes (any temperatures), the ghosts *)
(* are set, and update is entered: it reads the count and starts a pass.   *)
(***************************************************************************)
LayerStep ==
    /\ upc = "idle"
    /\ step < MaxSteps
    /\ step' = step + 1
    /\ time' = time + dt_
    /\ T0' = T
    /\ \E f \in [Cells -> Temps] :
         T' = WithGhosts([i \in Nodes |-> IF i \in Cells THEN f[i] ELSE 0])
    /\ count_old_host' = count
    /\ cap0' = capacity
    /\ upc' = "pass1"
    /\ kpc' = [i \in Cells |-> "start"]
    /\ UNCHANGED << time_, count, capacity, events, tm_view, cur, writer,
                    melt, retCount >>
    /\ UNCHANGED notSD

(***************************************************************************)
(* The state after the constructors of Inputs, Grid and SolidificationData.*)
(***************************************************************************)
InitSD ==
    /\ step = 0
    /\ time = start_time
    /\ \E t \in Temps : T = [i \in Nodes |-> t]
    /\ T0 = [i \in Nodes |-> 0]
    /\ time_ = start_time
    /\ count = 0
    /\ capacity = Cardinality(Cells)
    /\ events = [r \in 1 .. Cardinality(Cells) |-> Uninit]
    /\ tm_view = [i \in Cells |-> 0]
    /\ count_old_host = 0
    /\ upc = "idle"
    /\ kpc = [i \in Cells |-> "done"]
    /\ cur = [i \in Cells |-> 0]
    /\ writer = [r \in 1 .. Cardinality(Cells) |-> NoWriter]
    /\ melt = [i \in Cells |-> [step |-> 0, tm |-> 0]]
    /\ cap0 = Cardinality(Cells)
    /\ retCount = 0
    /\ enabled_ = TRUE
    /\ files_written = {}

(***************************************************************************)
(* Segment and MovingBeam::readPath.  Indices of path are those of the     *)
(* code: segment i of the code is path[i + 1].                             *)
(***************************************************************************)
\* a small floating point value used for consistent path update logic
eps == 1

\* Segment::Segment(): the segment the constructor puts first
DefaultSegment ==
    [ mode |-> 1, position |-> << 0, 0, 0 >>, power |-> 0, parameter |-> 0,
      time |-> 0 ]

\* Segment::Segment( line ): mode, position, power and parameter are read,
\* the time is set later by readPath
LineSegment(m, x, pw, par) ==
    [ mode |-> m, position |-> << x, 0, 0 >>, power |-> pw, parameter |-> par,
      time |-> 0 ]

\* the square root of a perfect square
Sqrt(n) == CHOOSE r \in 0 .. n : r * r = n

\* d_ = sqrt( ... ) of readPath
Distance(p0, p1) ==
    Sqrt((p0[1] - p1[1]) * (p0[1] - p1[1]) +
         (p0[2] - p1[2]) * (p0[2] - p1[2]) +
         (p0[3] - p1[3]) * (p0[3] - p1[3]))

\* a time that takes every segment for a point
SegmentTimeAsPoint(p, i) == p[i].time + p[i + 1].parameter

\* path[i].setTime( ... ) for one segment i >= 1
SegmentTime(p, i) ==
    IF p[i + 1].mode = 1
    THEN p[i].time + p[i + 1].parameter
    ELSE p[i].time +
         Distance(p[i].position, p[i + 1].position) \div p[i + 1].parameter

\* the loop of readPath over i = 1 .. path.size() - 1
RECURSIVE SetTimes(_, _)
SetTimes(p, i) ==
    IF i < Len(p)
    THEN SetTimes([p EXCEPT ![i + 1].time = SegmentTime(p, i)], i + 1)
    ELSE p

\* MovingBeam::readPath on the segment lines of the file
readPath(lines) == SetTimes(<< DefaultSegment >> \o lines, 1)

\* the loop of the constructor: the time of the last segment with power
RECURSIVE LastPowerTime(_, _)
LastPowerTime(p, i) ==
    IF i > 0
    THEN IF p[i + 1].power > eps THEN p[i + 1].time
         ELSE LastPowerTime(p, i - 1)
    ELSE 0

(***************************************************************************)
(* MovingBeam::findIndex.                                                  *)
(***************************************************************************)
\* for ( i = index_; i > 0 && path[i].time() > time; --i )
RECURSIVE StepBack(_, _, _)
StepBack(p, i, t) ==
    IF i > 0 /\ p[i + 1].time > t THEN StepBack(p, i - 1, t) ELSE i

\* a forward walk that also leaves a segment ending exactly at the time
RECURSIVE StepForwardPast(_, _, _)
StepForwardPast(p, i, t) ==
    IF i < Len(p) - 1 /\ p[i + 1].time <= t
    THEN StepForwardPast(p, i + 1, t)
    ELSE i

\* for ( ; i < n && path[i].time() < time; ++i )
RECURSIVE StepForward(_, _, _)
StepForward(p, i, t) ==
    IF i < Len(p) - 1 /\ p[i + 1].time < t THEN StepForward(p, i + 1, t) ELSE i

\* while ( i < n ) skip point sources with zero time
RECURSIVE SkipPoints(_, _)
SkipPoints(p, i) ==
    IF i < Len(p) - 1 /\ p[i + 1].mode = 1 /\ p[i + 1].parameter = 0
    THEN SkipPoints(p, i + 1)
    ELSE i

findIndex(p, idx, t) ==
    Min(Max(SkipPoints(p, StepForward(p, StepBack(p, idx, t), t)), 0),
        Len(p) - 1)

(***************************************************************************)
(* MovingBeam::move.  A beam is [index, position, power].  The code reads  *)
(* path[i - 1] also when i = 0, before the first element of the vector:    *)
(* what it finds there is g, any segment.                                  *)
(***************************************************************************)
\* the segment before i
Before(p, i, g) == IF i >= 1 THEN p[i] ELSE g

\* an interpolation that starts from the end point of the segment
InterpolateFromEnd(p, i, t, g) ==
    LET dt == p[i + 1].time - Before(p, i, g).time
        dx(d) == p[i + 1].position[d] - Before(p, i, g).position[d]
        displacement(d) ==
            IF dt > 0 THEN (dx(d) * (t - Before(p, i, g).time)) \div dt ELSE 0
    IN  [ d \in 1 .. 3 |-> p[i + 1].position[d] + displacement(d) ]

\* lines 112-129: the beam centre on a line segment
Interpolate(p, i, t, g) ==
    LET dt == p[i + 1].time - Before(p, i, g).time
        dx(d) == p[i + 1].position[d] - Before(p, i, g).position[d]
        displacement(d) ==
            IF dt > 0 THEN (dx(d) * (t - Before(p, i, g).time)) \div dt ELSE 0
    IN  [ d \in 1 .. 3 |-> Before(p, i, g).position[d] + displacement(d) ]

\* lines 106-130: update the beam center
Center(p, i, t, g) ==
    IF p[i + 1].mode = 1 THEN p[i + 1].position ELSE Interpolate(p, i, t, g)

\* lines 133-140: update the beam power
Power(p, i, t, g) ==
    IF t - Before(p, i, g).time > eps THEN p[i + 1].power
    ELSE Before(p, i, g).power

\* a past-the-end branch that parks the beam on the last segment
PastEndParked(b, p) ==
    [ index |-> Len(p) - 1, position |-> p[Len(p)].position, power |-> 0 ]

\* lines 94-98: turn off the laser power and stop position update
PastEnd(b, p) == [b EXCEPT !.power = 0]

\* time is past the end of the path
IsPastEnd(t, endT) == t - endT > eps

move(b, p, endT, t, g) ==
    IF IsPastEnd(t, endT)
    THEN PastEnd(b, p)
    ELSE LET i == findIndex(p, b.index, t)
         IN  [ index |-> i, position |-> Center(p, i, t, g),
               power |-> Power(p, i, t, g) ]

(***************************************************************************)
(* The scan-path files and the queries explored.                           *)
(***************************************************************************)
\* largest number of segment lines of a scan-path file
MaxSegs == 3
\* how far past the last segment a query goes
Extra == 4

\* the segment lines: points at x = 0 or x = 4 that take no time or 4, and
\* lines at speed 1 to x = 0 or x = 4, with the power off or on
FileSegments ==
    { LineSegment(1, 0, 0, 4), LineSegment(1, 4, 100, 4),
      LineSegment(1, 0, 0, 0), LineSegment(1, 4, 0, 0),
      LineSegment(0, 4, 100, 1), LineSegment(0, 0, 100, 1),
      LineSegment(0, 4, 0, 1), LineSegment(0, 0, 0, 1) }

Files == UNION { [1 .. n -> FileSegments] : n \in 0 .. MaxSegs }

\* what a read before the first element of path can return
Garbage ==
    { [ mode |-> 1, position |-> << 0, 0, 0 >>, power |-> pw, parameter |-> 0,
        time |-> tt ] : pw \in {0, 9}, tt \in {-8, 8} }

Beam == [ index |-> index_, position |-> position_, power |-> power_ ]
FreshBeam == [ index |-> 0, position |-> << 0, 0, 0 >>, power |-> 0 ]

\* the reads before the first element that a call on path p can make: the
\* index is 0 only when the file has no segment line
ReadsBeforeFirst(p) == IF Len(p) = 1 THEN Garbage ELSE { DefaultSegment }

\* a line of a scan-path file: the header, an empty line, a segment line with
\* its six numbers, or a segment line cut short after the power, which has
\* the five numbers mode, x, y, z and power only
HeaderLine == [ kind |-> "header", seg |-> DefaultSegment ]
BlankLine == [ kind |-> "blank", seg |-> DefaultSegment ]
SegmentLine(sg) == [ kind |-> "segment", seg |-> sg ]
ShortLine(sg) == [ kind |-> "short", seg |-> sg ]

\* a scan-path file on disk: whether it is there, and its lines
NoFile == [ exists |-> FALSE, text |-> << >> ]
ScanFile(lines) ==
    [ exists |-> TRUE,
      text |-> << HeaderLine >> \o
               [i \in 1 .. Len(lines) |-> SegmentLine(lines[i])] ]

\* what a member that was never written can hold
Indeterminate == {0, 4}

\* Segment::Segment( line ): the extractions of a line cut short stop after
\* the power, and parameter_ keeps the value u it happened to have
ParseLine(l, u) ==
    IF l.kind = "short" THEN [l.seg EXCEPT !.parameter = u] ELSE l.seg

\* the lines readPath turns into segments: the first line is skipped
\* whatever it holds, and so are the empty lines
RECURSIVE WithoutBlank(_)
WithoutBlank(text) ==
    IF text = << >> THEN << >>
    ELSE IF Head(text).kind = "blank" THEN WithoutBlank(Tail(text))
         ELSE << Head(text) >> \o WithoutBlank(Tail(text))

SegmentLines(text) ==
    IF text = << >> THEN << >> ELSE WithoutBlank(Tail(text))

\* the lines a file can hold after its header
BodyLines ==
    { SegmentLine(sg) : sg \in FileSegments } \cup { BlankLine } \cup
    { SegmentLine(LineSegment(0, 4, 100, 2)) } \cup
    { ShortLine(LineSegment(1, 4, 100, 0)), ShortLine(LineSegment(1, 0, 0, 0)) }

\* the files the constructor is given: none, one of no byte, and a header
\* followed by up to MaxSegs lines
ScanFiles ==
    { NoFile, [ exists |-> TRUE, text |-> << >> ] } \cup
    { [ exists |-> TRUE, text |-> << HeaderLine >> \o body ] :
        body \in UNION { [1 .. n -> BodyLines] : n \in 0 .. MaxSegs } }

\* before MovingBeam::MovingBeam( scan_path_file ) is called in main
InitLoad ==
    /\ pFile_ \in ScanFiles
    /\ loadStatus = "none"
    /\ path = << DefaultSegment >>
    /\ endTime_ = 0
    /\ index_ = 0
    /\ position_ = << 0, 0, 0 >>
    /\ power_ = 0
    /\ lastT = -1
    /\ mono = TRUE

\* MovingBeam::MovingBeam( scan_path_file ) when readPath throws: the
\* stream of a file that is not there is not good
ConstructThrows ==
    /\ loadStatus = "none"
    /\ ~pFile_.exists
    /\ loadStatus' = "error"
    /\ UNCHANGED << pFile_, mbVars >>
    /\ UNCHANGED << sdVars, enabled_, files_written, slVars, cfgVars, bdVars,
                    hlVars, rnVars, bxVars >>

\* MovingBeam::MovingBeam( scan_path_file ) when readPath returns
Construct ==
    /\ loadStatus = "none"
    /\ pFile_.exists
    /\ LET lines == SegmentLines(pFile_.text)
       IN  \E u \in [1 .. Len(lines) -> Indeterminate] :
               path' = readPath([i \in 1 .. Len(lines) |->
                                    ParseLine(lines[i], u[i])])
    /\ endTime_' = LastPowerTime(path', Len(path') - 1)
    /\ index_' = FreshBeam.index
    /\ position_' = FreshBeam.position
    /\ power_' = FreshBeam.power
    /\ loadStatus' = "constructed"
    /\ UNCHANGED << pFile_, lastT, mono >>
    /\ UNCHANGED << sdVars, enabled_, files_written, slVars, cfgVars, bdVars,
                    hlVars, rnVars, bxVars >>

\* MovingBeam::MovingBeam( scan_path_file )
InitBeam ==
    /\ \E lines \in Files : pFile_ = ScanFile(lines) /\ path = readPath(lines)
    /\ endTime_ = LastPowerTime(path, Len(path) - 1)
    /\ index_ = FreshBeam.index
    /\ position_ = FreshBeam.position
    /\ power_ = FreshBeam.power
    /\ lastT = -1
    /\ mono = TRUE
    /\ loadStatus = "constructed"

\* one call move( t )
Move(t, g) ==
    /\ LET b == move(Beam, path, endTime_, t, g)
       IN  /\ index_' = b.index
           /\ position_' = b.position
           /\ power_' = b.power
    /\ lastT' = t
    /\ mono' = (mono /\ t >= lastT)
    /\ UNCHANGED << path, endTime_ >>
    /\ UNCHANGED notMB

QueryTimes == 0 .. (path[Len(path)].time + Extra)

\* no beam: the value of the beam variables while the recorder is explored
IdleBeam ==
    /\ path = << DefaultSegment >>
    /\ endTime_ = 0
    /\ index_ = 0
    /\ position_ = << 0, 0, 0 >>
    /\ power_ = 0
    /\ lastT = -1
    /\ mono = TRUE
    /\ loadStatus = "none"
    /\ pFile_ = NoFile

\* no recorder: the value of its variables while the beam is explored
IdleSD ==
    /\ step = 0
    /\ time = start_time
    /\ T = [i \in Nodes |-> 0]
    /\ T0 = [i \in Nodes |-> 0]
    /\ time_ = start_time
    /\ count = 0
    /\ capacity = 0
    /\ events = << >>
    /\ tm_view = [i \in Cells |-> 0]
    /\ count_old_host = 0
    /\ upc = "off"
    /\ kpc = [i \in Cells |-> "done"]
    /\ cur = [i \in Cells |-> 0]
    /\ writer = << >>
    /\ melt = [i \in Cells |-> [step |-> 0, tm |-> 0]]
    /\ cap0 = 0
    /\ retCount = 0
    /\ enabled_ = FALSE
    /\ files_written = {}

(***************************************************************************)
(* The Layer of a run without sampling.  Layer::Layer leaves its member    *)
(* solidification_data_ as SolidificationData() {} made it: the views are  *)
(* empty, and enabled_ and capacity, which have no initialiser, hold what  *)
(* the storage of the Layer held.  update and write read enabled_.         *)
(***************************************************************************)
\* what an int that was never written can hold
IndeterminateInt == {0, 4}

\* Layer::Layer( inputs, grid ) when inputs.sampling.enabled is false
InitDisabled ==
    /\ step = 0
    /\ time = start_time
    /\ \E t \in Temps : T = [i \in Nodes |-> t]
    /\ T0 = [i \in Nodes |-> 0]
    /\ time_ = start_time
    /\ count = 0
    /\ capacity \in IndeterminateInt
    /\ events = << >>
    /\ tm_view = << >>
    /\ count_old_host = 0
    /\ upc = "idle"
    /\ kpc = [i \in Cells |-> "done"]
    /\ cur = [i \in Cells |-> 0]
    /\ writer = << >>
    /\ melt = [i \in Cells |-> [step |-> 0, tm |-> 0]]
    /\ cap0 = capacity
    /\ retCount = 0
    /\ enabled_ \in BOOLEAN
    /\ files_written = {}

\* update on the default constructed object when enabled_ is read as true:
\* count_host( 0 ) is read from a view of no element and is any int
\* new_count; the branches on it are those of lines 178-204, or the read
\* ends the program
UpdateOnDefault(new_count) ==
    \/ /\ upc' = "crashed"
       /\ UNCHANGED << capacity, events, writer >>
    \/ /\ upc' = "idle"
       /\ IF new_count >= capacity \/ NearCapacity(new_count, capacity)
          THEN /\ capacity' = NewCapacity(new_count)
               /\ events' = Resize(events, capacity', Uninit)
               /\ writer' = Resize(writer, capacity', NoWriter)
          ELSE UNCHANGED << capacity, events, writer >>

\* Layer::step of the run without sampling: the time is advanced, T is
\* copied to T0, the solver writes the owned nodes, the ghosts are set, and
\* update is called on the default constructed object
DisabledStep ==
    /\ upc = "idle"
    /\ step < MaxSteps
    /\ step' = step + 1
    /\ time' = time + dt_
    /\ T0' = T
    /\ \E f \in [Cells -> Temps] :
         T' = WithGhosts([i \in Nodes |-> IF i \in Cells THEN f[i] ELSE 0])
    /\ IF ~enabled_
       THEN UNCHANGED << capacity, events, writer, upc >>
       ELSE \E new_count \in IndeterminateInt : UpdateOnDefault(new_count)
    /\ UNCHANGED << time_, count, tm_view, count_old_host, kpc, cur, melt,
                    cap0, retCount >>
    /\ UNCHANGED notSD

\* write on the default constructed object, after the last step: when
\* enabled_ is read as true the file of the rank is opened for writing
DisabledWrite ==
    /\ upc = "idle"
    /\ step = MaxSteps
    /\ files_written = {}
    /\ IF ~enabled_
       THEN UNCHANGED << files_written, upc >>
       ELSE \/ files_written' = {"data"} /\ upc' = "written"
            \/ files_written' = {"data"} /\ upc' = "crashed"
    /\ UNCHANGED << step, time, T, T0, time_, count, capacity, events,
                    tm_view, count_old_host, kpc, cur, writer, melt, cap0,
                    retCount >>
    /\ UNCHANGED << mbVars, enabled_, loadStatus, pFile_, slVars, cfgVars,
                    bdVars, hlVars, rnVars, bxVars >>

(***************************************************************************)
(* SolidificationData::update as one step, on a grid of GrowthCells owned  *)
(* nodes.  Of the temperatures only the number of events a pass counts is  *)
(* kept: a pass is given the number K of nodes at which the kernel records *)
(* an event, and a row is abridged to << step, j >> for the j-th event of  *)
(* the step.                                                               *)
(***************************************************************************)
\* grid.getIndexSpace().size()
GrowthCells == 100

\* the numbers of events a step can record
EventCounts == {0, 5, 45, 50, 95, 100}

\* updateEvents: count goes from old to old + K, and the rows below the
\* capacity are written
PassRows(ev, cap, old, K, s) ==
    [ r \in 1 .. cap |->
        IF old < r /\ r <= old + K THEN << s, r - old >> ELSE ev[r] ]

\* the state after the constructor on the grid of GrowthCells nodes
InitGrowth ==
    /\ step = 0
    /\ time = start_time
    /\ T = [i \in Nodes |-> 0]
    /\ T0 = [i \in Nodes |-> 0]
    /\ time_ = start_time
    /\ count = 0
    /\ capacity = GrowthCells
    /\ events = [r \in 1 .. GrowthCells |-> Uninit]
    /\ tm_view = [i \in Cells |-> 0]
    /\ count_old_host = 0
    /\ upc = "idle"
    /\ kpc = [i \in Cells |-> "done"]
    /\ cur = [i \in Cells |-> 0]
    /\ writer = << >>
    /\ melt = [i \in Cells |-> [step |-> 0, tm |-> 0]]
    /\ cap0 = GrowthCells
    /\ retCount = 0
    /\ enabled_ = TRUE
    /\ files_written = {}

\* one Layer::step whose solve leaves K events to record, and the whole of
\* update: lines 166-205
GrowthUpdate(K) ==
    /\ upc = "idle"
    /\ step < MaxSteps
    /\ step' = step + 1
    /\ time' = time + dt_
    /\ count_old_host' = count
    /\ cap0' = capacity
    /\ LET new_count == count + K
           pass1 == PassRows(events, capacity, count, K, step')
       IN  IF new_count >= capacity
           THEN /\ capacity' = NewCapacity(new_count)
                /\ count' = RestoredCount(count, new_count) + K
                /\ events' = PassRows(Resize(pass1, capacity', Uninit),
                                      capacity',
                                      RestoredCount(count, new_count), K,
                                      step')
           ELSE /\ count' = new_count
                /\ IF NearCapacity(new_count, capacity)
                   THEN /\ capacity' = NewCapacity(new_count)
                        /\ events' = Resize(pass1, capacity', Uninit)
                   ELSE /\ capacity' = capacity
                        /\ events' = pass1
    /\ retCount' = count'
    /\ UNCHANGED << T, T0, time_, tm_view, upc, kpc, cur, writer, melt >>
    /\ UNCHANGED notSD

(***************************************************************************)
(* Grid and Boundary.  The model grid has two axes, x and y, and so four   *)
(* planes -x, +x, -y, +y, in the order of Boundary::create.  A node is     *)
(* << i, j >>, with the global index along each axis; a local grid is the  *)
(* owned indices along each axis and the planes behind which a             *)
(* neighbouring rank lies.                                                 *)
(***************************************************************************)
\* Halo and stencil width
halo_width == 1

Planes == 1 .. 4

\* boundary_planes[count]
boundary_planes(b) ==
    CASE b = 1 -> << -1, 0 >>
      [] b = 2 -> << 1, 0 >>
      [] b = 3 -> << 0, -1 >>
      [] b = 4 -> << 0, 1 >>

\* the values of the boundary conditions, per plane
boundary_values == [ b \in Planes |-> 2 + b ]

\* the integer representation of the types: dirichlet, neumann, adiabatic
BoundaryTypes == {0, 1, 2}

LocalGrid(xs, ys, nb) == [ xs |-> xs, ys |-> ys, nb |-> nb ]

SetMin(S) == CHOOSE m \in S : \A e \in S : m <= e
SetMax(S) == CHOOSE m \in S : \A e \in S : m >= e

\* the owned index space and the index space with the ghosts
OwnedSpace(g) == g.xs \X g.ys
GhostedAxis(S) == (SetMin(S) - halo_width) .. (SetMax(S) + halo_width)
GhostedSpace(g) == GhostedAxis(g.xs) \X GhostedAxis(g.ys)

\* an index space of a plane that spans the ghosts along the other axis
AxisSpaceGhosted(S, off) ==
    IF off = -1 THEN (SetMin(S) - halo_width) .. (SetMin(S) - 1)
    ELSE IF off = 1 THEN (SetMax(S) + 1) .. (SetMax(S) + halo_width)
    ELSE GhostedAxis(S)

\* one axis of an index space of the ghosts: below the owned indices, above
\* them, or the owned indices
AxisSpace(S, off) ==
    IF off = -1 THEN (SetMin(S) - halo_width) .. (SetMin(S) - 1)
    ELSE IF off = 1 THEN (SetMax(S) + 1) .. (SetMax(S) + halo_width)
    ELSE S

\* local_grid->boundaryIndexSpace( Ghost(), EntityType(), plane ): empty
\* when a neighbouring rank lies behind the plane
boundaryIndexSpace(g, b) ==
    IF b \in g.nb THEN {}
    ELSE AxisSpace(g.xs, boundary_planes(b)[1]) \X
         AxisSpace(g.ys, boundary_planes(b)[2])

\* ( i - planes[b][0], j - planes[b][1] )
Inward(b, c) ==
    << c[1] - boundary_planes(b)[1], c[2] - boundary_planes(b)[2] >>

\* a kernel in which the neumann branch assigns the value
BoundaryKernelAssign(f, types, b, c) ==
    IF types[b] = 0 THEN boundary_values[b]
    ELSE IF types[b] = 1 THEN boundary_values[b]
    ELSE f[Inward(b, c)]

\* the kernel of Boundary::update: the value written to T( i, j, k, 0 )
BoundaryKernel(f, types, b, c) ==
    IF types[b] = 0 THEN boundary_values[b]
    ELSE IF types[b] = 1 THEN f[c] + boundary_values[b]
    ELSE f[Inward(b, c)]

\* the kernel instances of one call: the nodes of the index spaces
BoundaryInstances(g) ==
    { bc \in Planes \X GhostedSpace(g) : bc[2] \in boundaryIndexSpace(g, bc[1]) }

\* the nodes a kernel instance reads
BoundaryReads(types, b, c) ==
    IF types[b] = 0 THEN {}
    ELSE IF types[b] = 1 THEN {c}
    ELSE {Inward(b, c)}

\* Boundary::update as a whole, with every instance reading the view as it
\* was when the call began
BoundaryUpdate(g, f, types) ==
    [ c \in GhostedSpace(g) |->
        IF \E b \in Planes : c \in boundaryIndexSpace(g, b)
        THEN LET b == CHOOSE p \in Planes : c \in boundaryIndexSpace(g, p)
             IN  BoundaryKernel(f, types, b, c)
        ELSE f[c] ]

(***************************************************************************)
(* Boundary::update on one rank that owns two nodes along x and one along  *)
(* y: the instances of the kernel run one at a time, in any order.         *)
(***************************************************************************)
\* number of calls of Boundary::update explored
MaxUpdates == 2

BoundaryGrid == LocalGrid(1 .. 2, 1 .. 1, {})

\* space.initial_temperature
InitialTemperatures == {0, 1}

\* temperatures the solver leaves on an owned node
SolvedTemps == {0, 1}

\* the string storeTypes turns into the integer k
TypeName(k) ==
    IF k = 0 THEN "dirichlet" ELSE IF k = 1 THEN "neumann" ELSE "adiabatic"

\* Grid::initialize and the constructor of Boundary
InitBoundary ==
    /\ boundary_int \in [Planes -> BoundaryTypes]
    /\ boundary_types = [b \in Planes |-> TypeName(boundary_int[b])]
    /\ bstatus = "constructed"
    /\ initial_temperature \in InitialTemperatures
    /\ Tb = [c \in GhostedSpace(BoundaryGrid) |-> initial_temperature]
    /\ Tb_start = Tb
    /\ bdone = {}
    /\ bpc = "ready"
    /\ nupd = 0

\* Boundary::update is called: the kernel is launched
BoundaryLaunch ==
    /\ bpc \in {"ready", "returned"}
    /\ nupd < MaxUpdates
    /\ bpc' = "updating"
    /\ bdone' = {}
    /\ Tb_start' = Tb
    /\ UNCHANGED << Tb, nupd, cfgVars >>
    /\ UNCHANGED notBD

\* one instance of the kernel
BoundaryCell(b, c) ==
    /\ bpc = "updating"
    /\ << b, c >> \in BoundaryInstances(BoundaryGrid) \ bdone
    /\ Tb' = [Tb EXCEPT ![c] = BoundaryKernel(Tb, boundary_int, b, c)]
    /\ bdone' = bdone \cup {<< b, c >>}
    /\ UNCHANGED << bpc, nupd, Tb_start, cfgVars >>
    /\ UNCHANGED notBD

\* every instance has run: Boundary::update returns
BoundaryJoin ==
    /\ bpc = "updating"
    /\ bdone = BoundaryInstances(BoundaryGrid)
    /\ bpc' = "returned"
    /\ nupd' = nupd + 1
    /\ UNCHANGED << Tb, bdone, Tb_start, cfgVars >>
    /\ UNCHANGED notBD

\* Solver::solve between two calls: it writes the owned nodes
SolveWrite ==
    /\ bpc = "returned"
    /\ nupd < MaxUpdates
    /\ \E f \in [OwnedSpace(BoundaryGrid) -> SolvedTemps] :
         Tb' = [c \in GhostedSpace(BoundaryGrid) |->
                  IF c \in OwnedSpace(BoundaryGrid) THEN f[c] ELSE Tb[c]]
    /\ bpc' = "ready"
    /\ UNCHANGED << bdone, nupd, Tb_start, cfgVars >>
    /\ UNCHANGED notBD

(***************************************************************************)
(* The constructors of Boundary, given any strings as types, and update on *)
(* the Boundary made.  storeTypes writes boundary_int[d] for the three     *)
(* strings it knows; for another string it makes a std::runtime_error and  *)
(* does not throw it, and boundary_int[d], which has no initialiser, keeps *)
(* what the storage held.                                                  *)
(***************************************************************************)
\* the strings given as types
TypeStrings == {"dirichlet", "neumann", "adiabatic", "periodic"}

\* storeTypes for one plane, u being what boundary_int[d] held
StoreType(s, u) ==
    IF s = "dirichlet" THEN 0
    ELSE IF s = "neumann" THEN 1
    ELSE IF s = "adiabatic" THEN 2
    ELSE u

\* before the Boundary is made: the types are given, the view holds the
\* initial temperature
InitTypes ==
    /\ boundary_types \in [Planes -> TypeStrings]
    /\ bstatus = "none"
    /\ boundary_int = [b \in Planes |-> 2]
    /\ initial_temperature \in InitialTemperatures
    /\ Tb = [c \in GhostedSpace(BoundaryGrid) |-> initial_temperature]
    /\ Tb_start = Tb
    /\ bdone = {}
    /\ bpc = "ready"
    /\ nupd = 0

\* Boundary( types, values )
BoundaryWithValues ==
    /\ bstatus = "none"
    /\ \E u \in [Planes -> IndeterminateInt] :
          boundary_int' = [b \in Planes |-> StoreType(boundary_types[b], u[b])]
    /\ bstatus' = "constructed"
    /\ UNCHANGED << initial_temperature, boundary_types, bdVars >>
    /\ UNCHANGED notBD

\* Boundary( types ): throws when a type needs a value
BoundaryWithoutValues ==
    /\ bstatus = "none"
    /\ IF \E b \in Planes : boundary_types[b] \in {"dirichlet", "neumann"}
       THEN /\ bstatus' = "error"
            /\ UNCHANGED boundary_int
       ELSE /\ \E u \in [Planes -> IndeterminateInt] :
                  boundary_int' =
                      [b \in Planes |-> StoreType(boundary_types[b], u[b])]
            /\ bstatus' = "constructed without values"
    /\ UNCHANGED << initial_temperature, boundary_types, bdVars >>
    /\ UNCHANGED notBD

\* Boundary::update, all its instances, on the Boundary made with values
TypesUpdate ==
    /\ bstatus = "constructed"
    /\ nupd < MaxUpdates
    /\ Tb_start' = Tb
    /\ Tb' = BoundaryUpdate(BoundaryGrid, Tb, boundary_int)
    /\ nupd' = nupd + 1
    /\ UNCHANGED << bdone, bpc, cfgVars >>
    /\ UNCHANGED notBD

(***************************************************************************)
(* Grid::gather, Solver::solve and Layer::step on the global lattice of    *)
(* four nodes along x and one along y, held by one rank ("S") and, in a    *)
(* second run of the same program, by two ranks along x ("A" and "B").     *)
(* Every rank of a run takes each part of the step before any takes the    *)
(* next: the halo exchange sends the owned nodes as they are after the     *)
(* solve of the same step.                                                 *)
(***************************************************************************)
\* number of Layer steps explored
MaxLayerSteps == 2

Ranks == {"S", "A", "B"}

\* the local grid of each rank
GridOf(r) ==
    CASE r = "S" -> LocalGrid(1 .. 4, 1 .. 1, {})
      [] r = "A" -> LocalGrid(1 .. 2, 1 .. 1, {2})
      [] r = "B" -> LocalGrid(3 .. 4, 1 .. 1, {1})

\* the rank behind plane b of rank r
neighborRank(r, b) ==
    IF r = "A" /\ b = 2 THEN "B" ELSE IF r = "B" /\ b = 1 THEN "A" ELSE "none"

\* the nodes of the global lattice
GlobalNodes == OwnedSpace(GridOf("S"))

\* the ghost nodes of rank r that the rank behind plane b owns
sharedIndexSpace(r, b) ==
    IF b \in GridOf(r).nb
    THEN AxisSpace(GridOf(r).xs, boundary_planes(b)[1]) \X
         AxisSpace(GridOf(r).ys, boundary_planes(b)[2])
    ELSE {}

\* a halo exchange that delivers the owned values of before the solve
GatherStale(r, f, f0) ==
    [ c \in GhostedSpace(GridOf(r)) |->
        IF \E b \in Planes : c \in sharedIndexSpace(r, b)
        THEN LET b == CHOOSE p \in Planes : c \in sharedIndexSpace(r, p)
             IN  f0[neighborRank(r, b)][c]
        ELSE f[r][c] ]

\* halo->gather( exec_space{}, *T ) on rank r, f the views of all ranks
Gather(r, f, f0) ==
    [ c \in GhostedSpace(GridOf(r)) |->
        IF \E b \in Planes : c \in sharedIndexSpace(r, b)
        THEN LET b == CHOOSE p \in Planes : c \in sharedIndexSpace(r, p)
             IN  f[neighborRank(r, b)][c]
        ELSE f[r][c] ]

\* solidus of the solver, in the temperature unit of these runs
solidus_ == 1

\* rho_cp_ and rho_Lf_by_dT_, in units of dt_ * k_by_dx2_
rho_cp_ == 1
rho_Lf_by_dT_ == 1

\* dt_by_rho_cp: the divisor of the right hand side
HeatCapacity(x) ==
    IF x >= solidus_ /\ x <= liquidus_ THEN rho_cp_ + rho_Lf_by_dT_
    ELSE rho_cp_

\* a stencil with the centre weight of three axes on the two of the model
laplacianSix(f0, c) ==
    f0[<< c[1] - 1, c[2] >>] + f0[<< c[1] + 1, c[2] >>] +
    f0[<< c[1], c[2] - 1 >>] + f0[<< c[1], c[2] + 1 >>] - 6 * f0[c]

\* Solver::laplacian, on the two axes of the model
laplacian(f0, c) ==
    f0[<< c[1] - 1, c[2] >>] + f0[<< c[1] + 1, c[2] >>] +
    f0[<< c[1], c[2] - 1 >>] + f0[<< c[1], c[2] + 1 >>] - 4 * f0[c]

\* the beam power when the beam is on
BeamPower == 4

\* where the beam can be: over a node of the global lattice
BeamNodes == GlobalNodes

\* Solver::source: the weight cuts the source off beyond the node under the
\* beam
source(pw, pos, c) == IF pw # 0 /\ c = pos THEN pw ELSE 0

\* Solver::operator(): the new temperature of the owned node c
SolveNode(f0, pw, pos, c) ==
    f0[c] + (laplacian(f0, c) + source(pw, pos, c)) \div HeatCapacity(f0[c])

\* Solver::solve on rank r: T on the owned nodes from T0
Solve(r, f, f0, pw, pos) ==
    [ c \in GhostedSpace(GridOf(r)) |->
        IF c \in OwnedSpace(GridOf(r)) THEN SolveNode(f0, pw, pos, c)
        ELSE f[c] ]

\* Grid::initialize on every rank: T is assigned the initial temperature,
\* T0 is allocated; the constructor goes on with updateBoundaries and gather
InitHalo ==
    /\ boundary_int \in [Planes -> BoundaryTypes]
    /\ boundary_types = [b \in Planes |-> TypeName(boundary_int[b])]
    /\ bstatus = "constructed"
    /\ initial_temperature \in InitialTemperatures
    /\ hT = [r \in Ranks |->
               [c \in GhostedSpace(GridOf(r)) |-> initial_temperature]]
    /\ hT0 = [r \in Ranks |-> [c \in GhostedSpace(GridOf(r)) |-> 0]]
    /\ hpc = "initialized"
    /\ hstep = 0
    /\ heated = FALSE

\* a copy that leaves the destination as it was
deep_copyNone(dst, src) == dst

\* Kokkos::deep_copy( T0, T )
deep_copy(dst, src) == src

\* Layer::step up to the solve: beam.move, deep_copy( T0, T ), fd.solve
StepSolve(pw, pos) ==
    /\ hpc = "idle"
    /\ hstep < MaxLayerSteps
    /\ hstep' = hstep + 1
    /\ hT0' = [r \in Ranks |-> deep_copy(hT0[r], hT[r])]
    /\ hT' = [r \in Ranks |-> Solve(r, hT[r], hT0'[r], pw, pos)]
    /\ heated' = (heated \/ pw # 0)
    /\ hpc' = "solved"
    /\ UNCHANGED cfgVars
    /\ UNCHANGED notHL

\* grid.updateBoundaries(), in Layer::step and in the constructor of Grid
StepBoundaries ==
    /\ hpc \in {"initialized", "solved"}
    /\ hT' = [r \in Ranks |-> BoundaryUpdate(GridOf(r), hT[r], boundary_int)]
    /\ hpc' = "bounded"
    /\ UNCHANGED << hT0, hstep, heated, cfgVars >>
    /\ UNCHANGED notHL

\* grid.gather(), in Layer::step and in the constructor of Grid
StepGather ==
    /\ hpc = "bounded"
    /\ hT' = [r \in Ranks |-> Gather(r, hT, hT0)]
    /\ hpc' = "idle"
    /\ UNCHANGED << hT0, hstep, heated, cfgVars >>
    /\ UNCHANGED notHL

(***************************************************************************)
(* Solver::solve kernel by kernel, on one rank that owns two nodes along   *)
(* x and two along y, with adiabatic planes: the instances of operator()   *)
(* run one at a time, in any order.  The rest of Layer::step follows the   *)
(* last of them.                                                           *)
(***************************************************************************)
\* largest number of Layer steps explored kernel by kernel
MaxSolves == 2

SolveGrid == LocalGrid(1 .. 2, 1 .. 2, {})

\* a kernel that reads the view it writes
SolveKernelInPlace(f, f0, pw, pos, c) ==
    [f EXCEPT ![c] = SolveNode(f, pw, pos, c)]

\* Solver::operator()( tag, i, j, k ): T_( i, j, k, 0 ) = x + rhs * ...
SolveKernel(f, f0, pw, pos, c) ==
    [f EXCEPT ![c] = SolveNode(f0, pw, pos, c)]

\* Grid::Grid on the rank: T holds the initial temperature, T0 is a
\* separate array
InitSolve ==
    /\ \E t \in InitialTemperatures :
          sT = [c \in GhostedSpace(SolveGrid) |-> t]
    /\ sT0 = [c \in GhostedSpace(SolveGrid) |-> 0]
    /\ sdone = {}
    /\ spc = "ready"
    /\ sbeam = [power |-> 0, position |-> << 1, 1 >>]
    /\ nsolve = 0
    /\ sT_start = sT

\* Layer::step up to the launch of the kernels: beam.move,
\* deep_copy( T0, T ), and the head of Solver::solve
SolveLaunch(pw, pos) ==
    /\ spc = "ready"
    /\ nsolve < MaxSolves
    /\ sT0' = deep_copy(sT0, sT)
    /\ sbeam' = [power |-> pw, position |-> pos]
    /\ sdone' = {}
    /\ spc' = "solving"
    /\ sT_start' = sT
    /\ UNCHANGED << sT, nsolve >>
    /\ UNCHANGED notSL

\* one instance of operator()
SolveCell(c) ==
    /\ spc = "solving"
    /\ c \in OwnedSpace(SolveGrid) \ sdone
    /\ sT' = SolveKernel(sT, sT0, sbeam.power, sbeam.position, c)
    /\ sdone' = sdone \cup {c}
    /\ UNCHANGED << sT0, spc, sbeam, nsolve, sT_start >>
    /\ UNCHANGED notSL

\* the parallel_for has ended; Layer::step goes on with updateBoundaries
\* (gather has no neighbour to exchange with)
SolveJoin ==
    /\ spc = "solving"
    /\ sdone = OwnedSpace(SolveGrid)
    /\ sT' = BoundaryUpdate(SolveGrid, sT, boundary_int)
    /\ spc' = "ready"
    /\ nsolve' = nsolve + 1
    /\ UNCHANGED << sT0, sdone, sbeam, sT_start >>
    /\ UNCHANGED notSL

\* no solve kernel by kernel
IdleSolve ==
    /\ sT = << >>
    /\ sT0 = << >>
    /\ sdone = {}
    /\ spc = "off"
    /\ sbeam = [power |-> 0, position |-> << 1, 1 >>]
    /\ nsolve = 0
    /\ sT_start = << >>

(***************************************************************************)
(* Output::setInterval and Layer::run.  A time is held as the number of    *)
(* time steps dt it is a multiple of.                                      *)
(***************************************************************************)
\* largest inputs.time.num_steps explored
MaxRunSteps == 4
\* largest total_output_steps and total_monitor_steps explored
MaxTotalSteps == 3

\* Output::setInterval( num_steps ), for total_steps of the configuration
setInterval(total_steps, N) ==
    IF total_steps = 0 THEN N + 1
    ELSE Max(Min(N \div total_steps, N), 1)

\* Inputs: num_steps, output.setInterval, monitor.setInterval
InitRun ==
    /\ num_steps \in 0 .. MaxRunSteps
    /\ \E t \in 0 .. MaxTotalSteps :
         output = [total_steps |-> t, interval |-> setInterval(t, num_steps)]
    /\ \E t \in 0 .. MaxTotalSteps :
         monitor = [total_steps |-> t, interval |-> setInterval(t, num_steps)]
    /\ n_ = 0
    /\ snapshots = << >>
    /\ monitor_log = << >>

\* one iteration of the loop of Layer::run: step, then the monitor entry and
\* the snapshot of the iteration; "at" is the iteration, kept as history
RunIteration ==
    /\ n_ < num_steps
    /\ monitor_log' =
         IF (n_ + 1) % monitor.interval = 0
         THEN Append(monitor_log, [at |-> n_, step |-> n_])
         ELSE monitor_log
    /\ snapshots' =
         IF (n_ + 1) % output.interval = 0
         THEN Append(snapshots, [at |-> n_, step |-> n_, time |-> n_])
         ELSE snapshots
    /\ n_' = n_ + 1
    /\ UNCHANGED << num_steps, output, monitor >>
    /\ UNCHANGED notRN

(***************************************************************************)
(* SolidificationData::getLowerBounds and getUpperBounds, called by every  *)
(* rank of the communicator.  A rank's events has BoundsCapacity rows, of  *)
(* which the first count( 0 ) are recorded events; the others hold any     *)
(* value.                                                                  *)
(***************************************************************************)
\* rows of events on each rank
BoundsCapacity == 2

\* the largest double, the identity of Kokkos::Min; Kokkos::Max has -DBL_MAX
DBL_MAX == 1000

\* the ranks of the communicator
EventRanks == {"A", "B"}

\* the coordinates a row can hold in columns 0..2
EventCoords == { << x, y, 0 >> : x \in {-50, 50}, y \in {0, 50} }

\* a reduction over every row of the view
LocalMinAllRows(ev, n, d) ==
    SetMin({ ev[k][d] : k \in 1 .. Len(ev) } \cup {DBL_MAX})

\* Kokkos::parallel_reduce over count_host( 0 ) rows with Kokkos::Min
LocalMin(ev, n, d) == SetMin({ ev[k][d] : k \in 1 .. n } \cup {DBL_MAX})

\* Kokkos::parallel_reduce over count_host( 0 ) rows with Kokkos::Max
LocalMax(ev, n, d) == SetMax({ ev[k][d] : k \in 1 .. n } \cup {-DBL_MAX})

\* MPI_Allreduce( ..., MPI_MIN, comm ) and ( ..., MPI_MAX, comm )
AllreduceMin(local) == SetMin({ local[r] : r \in EventRanks })
AllreduceMax(local) == SetMax({ local[r] : r \in EventRanks })

\* what getLowerBounds and getUpperBounds return on every rank
LowerBounds(ev, cnt) ==
    [ d \in 1 .. 3 |->
        AllreduceMin([r \in EventRanks |-> LocalMin(ev[r], cnt[r], d)]) ]
UpperBounds(ev, cnt) ==
    [ d \in 1 .. 3 |->
        AllreduceMax([r \in EventRanks |-> LocalMax(ev[r], cnt[r], d)]) ]

\* the recorders of the ranks at the end of a run
InitBounds ==
    /\ rk_events \in [EventRanks -> [1 .. BoundsCapacity -> EventCoords]]
    /\ rk_count \in [EventRanks -> 0 .. BoundsCapacity]
    /\ data_bounds_low = << >>
    /\ data_bounds_high = << >>

\* every rank calls getLowerBounds( comm )
GetLowerBounds ==
    /\ data_bounds_low' =
         [r \in EventRanks |-> LowerBounds(rk_events, rk_count)]
    /\ UNCHANGED << rk_events, rk_count, data_bounds_high >>
    /\ UNCHANGED notBX

\* every rank calls getUpperBounds( comm )
GetUpperBounds ==
    /\ data_bounds_high' =
         [r \in EventRanks |-> UpperBounds(rk_events, rk_count)]
    /\ UNCHANGED << rk_events, rk_count, data_bounds_low >>
    /\ UNCHANGED notBX

\* no boundary update: the value of its variables in the other explorations
IdleBoundary ==
    /\ Tb = << >>
    /\ Tb_start = << >>
    /\ bdone = {}
    /\ bpc = "off"
    /\ nupd = 0

\* no grid configuration
IdleCfg ==
    /\ boundary_int = [b \in Planes |-> 2]
    /\ boundary_types = [b \in Planes |-> "adiabatic"]
    /\ bstatus = "constructed"
    /\ initial_temperature = 0

\* no Layer step on the grids
IdleHalo ==
    /\ hT = << >>
    /\ hT0 = << >>
    /\ hpc = "off"
    /\ hstep = 0
    /\ heated = FALSE

\* no Layer::run
IdleRun ==
    /\ num_steps = 0
    /\ output = [total_steps |-> 0, interval |-> 1]
    /\ monitor = [total_steps |-> 0, interval |-> 1]
    /\ n_ = 0
    /\ snapshots = << >>
    /\ monitor_log = << >>

\* no event logs of the ranks
IdleBounds ==
    /\ rk_events = << >>
    /\ rk_count = << >>
    /\ data_bounds_low = << >>
    /\ data_bounds_high = << >>

(***************************************************************************)
(* The specifications: the recorder under the Layer time step (Spec), and  *)
(* the scan path under any sequence of queries (BeamSpec).                 *)
(***************************************************************************)
\* the components that are not explored
IdleGrid == IdleCfg /\ IdleBoundary /\ IdleHalo /\ IdleSolve
IdleRest == IdleRun /\ IdleBounds

Init == InitSD /\ IdleBeam /\ IdleGrid /\ IdleRest

Next ==
    \/ LayerStep
    \/ \E i \in Cells : KernelDetect(i)
    \/ \E i \in Cells : KernelRecord(i)
    \/ PassOneEnd
    \/ PassTwoEnd

Spec == Init /\ [][Next]_vars

\* the recorder over its first steps, every kernel instance and the host
\* running on: no part of update waits for anything but the kernels, and
\* parallel_for returns when all its instances have run
MaxLiveSteps == 2

LiveNext ==
    \/ (step < MaxLiveSteps /\ LayerStep)
    \/ \E i \in Cells : KernelDetect(i)
    \/ \E i \in Cells : KernelRecord(i)
    \/ PassOneEnd
    \/ PassTwoEnd

LiveSpec == Init /\ [][LiveNext]_vars /\ WF_vars(LiveNext)

BeamInit == InitBeam /\ IdleSD /\ IdleGrid /\ IdleRest

BeamNext ==
    \E t \in QueryTimes : \E g \in ReadsBeforeFirst(path) : Move(t, g)

BeamSpec == BeamInit /\ [][BeamNext]_vars

\* Boundary::update, instance by instance
BoundaryInit ==
    InitBoundary /\ IdleSD /\ IdleBeam /\ IdleHalo /\ IdleSolve /\ IdleRest

BoundaryNext ==
    \/ BoundaryLaunch
    \/ \E bc \in BoundaryInstances(BoundaryGrid) : BoundaryCell(bc[1], bc[2])
    \/ BoundaryJoin
    \/ SolveWrite

BoundarySpec == BoundaryInit /\ [][BoundaryNext]_vars

\* Layer::step on the grid of one rank and on the grids of two ranks
HaloInit ==
    InitHalo /\ IdleSD /\ IdleBeam /\ IdleBoundary /\ IdleSolve /\ IdleRest

HaloNext ==
    \/ \E pos \in BeamNodes : \E pw \in {0, BeamPower} : StepSolve(pw, pos)
    \/ StepBoundaries
    \/ StepGather

HaloSpec == HaloInit /\ [][HaloNext]_vars

\* Layer::run
RunInit == InitRun /\ IdleSD /\ IdleBeam /\ IdleGrid /\ IdleBounds

RunNext == RunIteration

RunSpec == RunInit /\ [][RunNext]_vars

\* the bounding-box reductions
BoundsInit == InitBounds /\ IdleSD /\ IdleBeam /\ IdleGrid /\ IdleRun

BoundsNext == GetLowerBounds \/ GetUpperBounds

BoundsSpec == BoundsInit /\ [][BoundsNext]_vars

\* the construction of the scan path
LoadInit == InitLoad /\ IdleSD /\ IdleGrid /\ IdleRest

LoadNext == ConstructThrows \/ Construct

LoadSpec == LoadInit /\ [][LoadNext]_vars

\* the run without sampling
DisabledInit == InitDisabled /\ IdleBeam /\ IdleGrid /\ IdleRest

DisabledNext == DisabledStep \/ DisabledWrite

DisabledSpec == DisabledInit /\ [][DisabledNext]_vars

\* update as one step on the larger grid
GrowthInit == InitGrowth /\ IdleBeam /\ IdleGrid /\ IdleRest

GrowthNext == \E K \in EventCounts : GrowthUpdate(K)

GrowthSpec == GrowthInit /\ [][GrowthNext]_vars

\* Solver::solve kernel by kernel
SolveInit ==
    /\ InitSolve
    /\ IdleSD /\ IdleBeam /\ IdleCfg /\ IdleBoundary /\ IdleHalo /\ IdleRest

SolveNext ==
    \/ \E pw \in {0, BeamPower} :
          \E pos \in OwnedSpace(SolveGrid) : SolveLaunch(pw, pos)
    \/ \E c \in OwnedSpace(SolveGrid) : SolveCell(c)
    \/ SolveJoin

SolveSpec == SolveInit /\ [][SolveNext]_vars

\* the constructors of Boundary on any strings
TypesInit ==
    InitTypes /\ IdleSD /\ IdleBeam /\ IdleHalo /\ IdleSolve /\ IdleRest

TypesNext == BoundaryWithValues \/ BoundaryWithoutValues \/ TypesUpdate

TypesSpec == TypesInit /\ [][TypesNext]_vars

(***************************************************************************)
(* Properties of the recorder, checked under Spec.                         *)
(***************************************************************************)
\* update has returned from the call made in the current step
Returned == upc = "idle" /\ step > 0

\* the owned nodes that cross the liquidus downwards in the current step
Crossings == { i \in Cells : IsSolidification(T[i], T0[i]) }

\* the rows appended by the current step, as indices of events
NewRows == (count_old_host + 1) .. count

\* the rows held when update has returned
Rows == 1 .. count

\* C1: when update returns, the count is the count at entry plus the number
\* K of owned nodes with T <= liquidus < T0, the K rows from the old count on
\* hold exactly the records of these nodes, each once, whatever the order of
\* the kernels, and if the first pass overflowed (old count + K >= capacity at
\* entry) the capacity is now at least twice the new count.
C1_OverflowRecovery ==
    Returned =>
        /\ count = count_old_host + Cardinality(Crossings)
        /\ count <= Len(events)
        /\ { events[r] : r \in NewRows } = { EventRow(i) : i \in Crossings }
        /\ { writer[r].cell : r \in NewRows } = Crossings
        /\ \A r \in NewRows : writer[r].step = step
        /\ (count_old_host + Cardinality(Crossings) >= cap0
               => capacity >= 2 * (count_old_host + Cardinality(Crossings)))

\* C1 witness: an update that found rows already recorded, overflowed, and
\* has returned
C1_Witness ==
    /\ Returned
    /\ count_old_host >= 1
    /\ Cardinality(Crossings) >= 1
    /\ count_old_host + Cardinality(Crossings) >= cap0

\* C2: after every return of update, 0 <= n <= capacity, every row below n
\* has been written (none was skipped because its index was not below the
\* capacity when its event was detected), and no two rows below n record the
\* same event.
C2_EventLogInvariant ==
    upc = "idle" =>
        /\ 0 <= count
        /\ count <= capacity
        /\ Len(events) = capacity
        /\ \A r \in Rows : events[r] # Uninit /\ Len(events[r]) = nCmpts
        /\ \A r \in Rows : writer[r] # NoWriter
        /\ \A r1, r2 \in Rows :
              (writer[r1].cell = writer[r2].cell
                 /\ writer[r1].step = writer[r2].step) => r1 = r2

\* C2 witness: update has returned with more rows than the first capacity
C2_Witness == upc = "idle" /\ count > Cardinality(Cells) /\ cap0 < capacity

\* C3: the rows below the count of the last return of update are the same
\* after every step of every later call (the retry and the growth included),
\* and the count at the returns never decreases.
C3_AppendOnly ==
    [][ /\ retCount' >= retCount
        /\ Len(events') >= retCount
        /\ \A r \in 1 .. retCount : events'[r] = events[r] ]_vars

\* C3 witness: a later call has been through the retry while earlier rows
\* were held, and has returned
C3_Witness ==
    /\ Returned
    /\ count_old_host >= 2
    /\ retCount > count_old_host
    /\ cap0 < capacity

\* the owned nodes that cross the liquidus upwards in the current step
Melts == { i \in Cells : IsMelt(T[i], T0[i]) }

\* C4: the row of a crossing detected in a step holds ts = t - m * dt with t
\* the simulated time of that step and m the clamped interpolation factor,
\* R = (T0 - T) / dt, and the central differences of T over 2h; with
\* T0 = 2000, T = 1500, liquidus 1700, t = 1.0 s, dt = 0.1 s the row has
\* ts = 0.96 s (288 ticks) and R = 5000 K/s; so at every step.
C4_SolidificationTime ==
    Returned =>
        /\ \A r \in Rows : events[r][5] = writer[r].tsTrue
        /\ \A r \in NewRows :
              LET i == writer[r].cell
              IN  /\ events[r][5] = CrossingTime(time, T[i], T0[i])
                  /\ events[r][6] * dt_ = (T0[i] - T[i]) * TicksPerSecond
                  /\ events[r][7] * 2 * cell_size_ = T[i + 1] - T[i - 1]
                  /\ events[r][8] = 0
                  /\ events[r][9] = 0
                  /\ (time = 300 /\ T0[i] = 2000 /\ T[i] = 1500)
                        => (events[r][5] = 288 /\ events[r][6] = 5000)

\* C5: a melt crossing writes no row and leaves n as it is, and stores the
\* interpolated time of the crossing in tm_view of its node; the tm of every
\* row of a node that melted earlier is the time of the most recent melt
\* crossing of that node, and between two rows of one node the node melted.
C5_MeltCrossing ==
    Returned =>
        /\ count = count_old_host + Cardinality(Crossings)
        /\ \A r \in NewRows : writer[r].cell \notin Melts
        /\ \A i \in Melts : tm_view[i] = CrossingTime(time, T[i], T0[i])
        /\ \A r \in Rows :
              writer[r].meltStep > 0 => events[r][4] = writer[r].tmTrue
        /\ \A r1, r2 \in Rows :
              (r1 < r2 /\ writer[r1].cell = writer[r2].cell)
                 => writer[r2].meltStep > writer[r1].step

\* C6: every row of a node that melted earlier in the run has ts >= tm and
\* a cooling rate R >= 0.
C6_EventMonotonicity ==
    Returned =>
        \A r \in Rows :
            writer[r].meltStep > 0
               => (events[r][5] >= events[r][4] /\ events[r][6] >= 0)

(***************************************************************************)
(* Properties of the scan path, checked under BeamSpec.                    *)
(***************************************************************************)
\* index of the last segment, the time at which segment i ends, its position
LastIndex == Len(path) - 1
TimeEnd(i) == path[i + 1].time
PositionOf(i) == path[i + 1].position

\* move has been called, and the last call was not past the end of the path
Queried == lastT >= 0
InPath == Queried /\ ~IsPastEnd(lastT, endTime_)

\* segment i is a traversed line that takes time
Traversed(i) ==
    i \in 1 .. LastIndex /\ path[i + 1].mode = 0 /\ TimeEnd(i) - TimeEnd(i - 1) > 0

\* what move( t ) leaves on a beam that has not been queried before
Fresh(t) == move(FreshBeam, path, endTime_, t, DefaultSegment)

\* C7: the position and the power after move( t ) are those of the same call
\* on a beam not queried before: they depend on t and the path only, not on
\* the cached index or the stored position (stated for the queries not past
\* the end, where move computes the position, on a file with segments).
C7_Deterministic ==
    (InPath /\ LastIndex >= 1) =>
        /\ position_ = Fresh(lastT).position
        /\ power_ = Fresh(lastT).power

Inside(i, t) == TimeEnd(i - 1) + eps < t /\ t <= TimeEnd(i)

\* the point of the line segment i at time t
PointAt(i, t) ==
    [ d \in 1 .. 3 |->
        PositionOf(i - 1)[d] +
        ((PositionOf(i)[d] - PositionOf(i - 1)[d]) * (t - TimeEnd(i - 1)))
            \div (TimeEnd(i) - TimeEnd(i - 1)) ]

\* position and power in segment i
InSegment(i, t, pos, pw) ==
    /\ pw = path[i + 1].power
    /\ pos = IF path[i + 1].mode = 1 THEN PositionOf(i) ELSE PointAt(i, t)

\* the last segment with the power on, the one that ends the path
RECURSIVE LastPowerIndex(_, _)
LastPowerIndex(p, i) ==
    IF i > 0 /\ p[i + 1].power <= eps THEN LastPowerIndex(p, i - 1) ELSE i

EndPoint == PositionOf(LastPowerIndex(path, LastIndex))

\* the path of the example: dwell 4 at the origin with the power off, then a
\* line to x = 4 at speed 1 with power 100 (the times of the example times 4)
ExamplePath ==
    readPath(<< LineSegment(1, 0, 0, 4), LineSegment(0, 4, 100, 1) >>)

\* C9 as claimed: queried in increasing time, in a dwell segment the
\* position is the dwell position, in a line the interpolation, the power
\* the segment's; after the end of the path the power is 0 and the position
\* is the end point of the path.
C9_AlongPathAsClaimed ==
    (Queried /\ mono) =>
        /\ InPath =>
              \A i \in 1 .. LastIndex :
                  Inside(i, lastT) => InSegment(i, lastT, position_, power_)
        /\ IsPastEnd(lastT, endTime_) =>
              (power_ = 0 /\ position_ = EndPoint)

\* C9 amended: queried in increasing time, in a dwell segment the position
\* is the dwell position, in a line the interpolation, the power the
\* segment's; a query past the end of the path sets the power to 0 and
\* leaves the position where the query before left it.  On the example path
\* the queries 2, 6, 12 give (0,0,0)/0, (2,0,0)/100 and (2,0,0)/0.
C9_AlongPath ==
    [][ mono' =>
          /\ ~IsPastEnd(lastT', endTime_) =>
                \A i \in 1 .. LastIndex :
                    Inside(i, lastT') =>
                        InSegment(i, lastT', position_', power_')
          /\ IsPastEnd(lastT', endTime_) =>
                (power_' = 0 /\ position_' = position_)
          /\ (path = ExamplePath /\ lastT' = 2) =>
                (position_' = << 0, 0, 0 >> /\ power_' = 0)
          /\ (path = ExamplePath /\ lastT' = 6) =>
                (position_' = << 2, 0, 0 >> /\ power_' = 100)
          /\ (path = ExamplePath /\ lastT = 6 /\ lastT' = 12) =>
                (position_' = << 2, 0, 0 >> /\ power_' = 0) ]_vars

\* C9 witness: on the example path the beam was queried in increasing time,
\* last past the end, and stays where the query in the line left it
C9_Witness ==
    /\ path = ExamplePath
    /\ mono
    /\ lastT = 12
    /\ position_ = << 2, 0, 0 >>
    /\ power_ = 0

\* C10: a call move( t ) with t - end_time > eps sets the power to 0 and
\* leaves the stored position and the cached index as they were.
C10_PastEndFrame ==
    [][ IsPastEnd(lastT', endTime_) =>
          (power_' = 0 /\ position_' = position_ /\ index_' = index_) ]_vars

\* C10 witness: a query past the end has left the beam inside a line
\* segment, away from both of its end points, with the power off
C10_Witness ==
    /\ Queried
    /\ IsPastEnd(lastT, endTime_)
    /\ index_ >= 1
    /\ path[index_ + 1].mode = 0
    /\ position_ # PositionOf(index_)
    /\ position_ # PositionOf(index_ - 1)
    /\ power_ = 0

(***************************************************************************)
(* Properties of Boundary::update, checked under BoundarySpec.             *)
(***************************************************************************)
\* the nodes of the index space of plane b, and the nodes of all of them
Face(b) == boundaryIndexSpace(BoundaryGrid, b)
Faces == UNION { Face(b) : b \in Planes }

\* C11: when Boundary::update has returned, every ghost node of the index
\* space of a plane holds the value of the plane's type: the value v for
\* dirichlet; for neumann its value before the call plus v, and so the
\* initial temperature plus k * v after k calls; for adiabatic the value the
\* inward neighbour has now.
C11_GhostValues ==
    bpc = "returned" =>
        \A b \in Planes : \A c \in Face(b) :
            /\ boundary_int[b] = 0 => Tb[c] = boundary_values[b]
            /\ boundary_int[b] = 1 =>
                  /\ Tb[c] = Tb_start[c] + boundary_values[b]
                  /\ Tb[c] = initial_temperature + nupd * boundary_values[b]
            /\ boundary_int[b] = 2 => Tb[c] = Tb[Inward(b, c)]

\* C11 witness: the second call has returned, after a solve that left the
\* owned nodes different, with a plane of each type
C11_Witness ==
    /\ bpc = "returned"
    /\ nupd = 2
    /\ \A t \in BoundaryTypes : \E b \in Planes : boundary_int[b] = t
    /\ \E c, d \in OwnedSpace(BoundaryGrid) : Tb[c] # Tb[d]
    /\ \E c \in OwnedSpace(BoundaryGrid) : Tb[c] # initial_temperature

\* C12 as claimed: no owned node is modified, the planes write pairwise
\* disjoint sets of ghost nodes, every node an instance reads is a node no
\* plane writes, and the view at the return is the same for every order.
C12_FrameAsClaimed ==
    /\ bpc \in {"updating", "returned"} =>
          \A c \in OwnedSpace(BoundaryGrid) : Tb[c] = Tb_start[c]
    /\ \A b1, b2 \in Planes : b1 # b2 => Face(b1) \cap Face(b2) = {}
    /\ \A b \in Planes : \A c \in Face(b) :
          BoundaryReads(boundary_int, b, c) \cap Faces = {}
    /\ bpc = "returned" =>
          Tb = BoundaryUpdate(BoundaryGrid, Tb_start, boundary_int)

\* C12 amended: no owned node is modified, the planes write pairwise
\* disjoint sets of ghost nodes, an instance reads only the ghost node it
\* writes itself (neumann) or a node no plane writes (adiabatic), and so the
\* nodes written so far hold their final values whatever the order, and the
\* view at the return is the same for every order.
C12_Frame ==
    /\ bpc \in {"updating", "returned"} =>
          \A c \in OwnedSpace(BoundaryGrid) : Tb[c] = Tb_start[c]
    /\ \A b1, b2 \in Planes : b1 # b2 => Face(b1) \cap Face(b2) = {}
    /\ \A b \in Planes : \A c \in Face(b) :
          BoundaryReads(boundary_int, b, c) \cap (Faces \ {c}) = {}
    /\ bpc = "updating" =>
          \A c \in GhostedSpace(BoundaryGrid) :
              Tb[c] = IF \E b \in Planes : << b, c >> \in bdone
                      THEN BoundaryUpdate(BoundaryGrid, Tb_start,
                                          boundary_int)[c]
                      ELSE Tb_start[c]
    /\ bpc = "returned" =>
          Tb = BoundaryUpdate(BoundaryGrid, Tb_start, boundary_int)

\* C12 witness: a call is half way, with instances of two planes done and
\* instances of the same planes still to run, one plane adiabatic and one
\* neumann
C12_Witness ==
    /\ bpc = "updating"
    /\ \E b1, b2 \in Planes :
          /\ boundary_int[b1] = 2
          /\ boundary_int[b2] = 1
          /\ \E c \in Face(b1) : << b1, c >> \in bdone
          /\ \E c \in Face(b2) : << b2, c >> \notin bdone
          /\ \E c \in Face(b2) : << b2, c >> \in bdone
    /\ \E c \in Faces : Tb[c] # Tb_start[c]

(***************************************************************************)
(* Properties of the grids under Layer::step, checked under HaloSpec.      *)
(***************************************************************************)
\* the ranks of the run on two ranks
TwoRanks == {"A", "B"}

\* updateBoundaries and gather have been called, the last time after hstep
\* steps and once in the constructor
Gathered == hpc = "idle"

AllAdiabatic == \A b \in Planes : boundary_int[b] = 2

\* C13: after updateBoundaries(); gather() on the two ranks, every ghost
\* node behind a plane on the boundary of the global domain holds the value
\* of the plane's boundary condition (v; the initial temperature plus v for
\* each call so far; the inward owned neighbour's value), and every ghost
\* node behind a plane shared with the other rank holds the value that rank
\* has now for the node, which it owns.
C13_GhostsAfterGather ==
    Gathered =>
        \A r \in TwoRanks : \A b \in Planes :
            /\ \A c \in boundaryIndexSpace(GridOf(r), b) :
                  /\ neighborRank(r, b) = "none"
                  /\ boundary_int[b] = 0 => hT[r][c] = boundary_values[b]
                  /\ boundary_int[b] = 1 =>
                        hT[r][c] = initial_temperature +
                                   (hstep + 1) * boundary_values[b]
                  /\ boundary_int[b] = 2 => hT[r][c] = hT[r][Inward(b, c)]
            /\ \A c \in sharedIndexSpace(r, b) :
                  /\ c \in OwnedSpace(GridOf(neighborRank(r, b)))
                  /\ hT[r][c] = hT[neighborRank(r, b)][c]
            /\ (neighborRank(r, b) # "none") =>
                  (boundaryIndexSpace(GridOf(r), b) = {}
                     /\ sharedIndexSpace(r, b) # {})

\* C13 witness: after two heated steps the ghost node of rank A that rank B
\* owns holds a value that is neither the initial one nor that of before the
\* last solve, with a dirichlet and a neumann plane on the outer boundary
C13_Witness ==
    /\ Gathered
    /\ hstep = 2
    /\ boundary_int[1] = 0
    /\ boundary_int[3] = 1
    /\ hT["A"][<< 3, 1 >>] # initial_temperature
    /\ hT["A"][<< 3, 1 >>] # hT0["B"][<< 3, 1 >>]
    /\ hT["A"][<< 3, 1 >>] = hT["B"][<< 3, 1 >>]

\* C14: with adiabatic planes, after the constructor and after every Layer
\* step (copy T to T0, solve, updateBoundaries, gather), every owned node of
\* the two ranks, the nodes next to the boundary between them included, has
\* the value the same node has in the run on one rank.
C14_HaloCorrectness ==
    (Gathered /\ AllAdiabatic) =>
        \A r \in TwoRanks : \A c \in OwnedSpace(GridOf(r)) :
            hT[r][c] = hT["S"][c]

\* C14 witness: two heated steps with adiabatic planes have left the two
\* nodes next to the boundary between the ranks different from each other
\* and from the initial temperature
C14_Witness ==
    /\ Gathered
    /\ AllAdiabatic
    /\ hstep = 2
    /\ heated
    /\ hT["A"][<< 2, 1 >>] # hT["B"][<< 3, 1 >>]
    /\ hT["A"][<< 2, 1 >>] # initial_temperature
    /\ hT["B"][<< 3, 1 >>] # initial_temperature
    /\ hT["A"][<< 2, 1 >>] # hT0["A"][<< 2, 1 >>]

\* C16: with the beam power zero in every step so far and adiabatic planes,
\* every owned node of every rank holds the initial temperature, after the
\* construction of Grid and at every point of every Layer step.
C16_ConstantField ==
    (AllAdiabatic /\ ~heated) =>
        \A r \in Ranks : \A c \in OwnedSpace(GridOf(r)) :
            hT[r][c] = initial_temperature

\* C16 witness: two steps without power on a field that is not zero
C16_Witness ==
    /\ Gathered
    /\ AllAdiabatic
    /\ ~heated
    /\ hstep = 2
    /\ initial_temperature # 0

(***************************************************************************)
(* Properties of Layer::run, checked under RunSpec.                        *)
(***************************************************************************)
\* the iterations at which an entry is due at interval iv
Due(iv) ==
    { k \in 0 .. (num_steps - 1) : (k + 1) % iv = 0 \/ k = num_steps - 1 }

\* C15: when Layer::run with N >= 1 steps has ended, the snapshots are those
\* of the iterations n with (n + 1) mod interval = 0 and of the last
\* iteration n = N - 1, each labelled with step n + 1 and time (n + 1) * dt,
\* and the monitor entries are those of the same rule with the monitor
\* interval, labelled n + 1; so a snapshot and a monitor entry labelled N
\* exist whatever the intervals.
C15_TerminalOutput ==
    (n_ = num_steps /\ num_steps >= 1) =>
        /\ { e.at : e \in { snapshots[k] : k \in 1 .. Len(snapshots) } } =
              Due(output.interval)
        /\ { e.at : e \in { monitor_log[k] : k \in 1 .. Len(monitor_log) } } =
              Due(monitor.interval)
        /\ \A k \in 1 .. Len(snapshots) :
              /\ snapshots[k].step = snapshots[k].at + 1
              /\ snapshots[k].time = snapshots[k].at + 1
        /\ \A k \in 1 .. Len(monitor_log) :
              monitor_log[k].step = monitor_log[k].at + 1
        /\ \E k \in 1 .. Len(snapshots) : snapshots[k].step = num_steps
        /\ \E k \in 1 .. Len(monitor_log) : monitor_log[k].step = num_steps

(***************************************************************************)
(* Properties of the bounding-box reductions, checked under BoundsSpec.    *)
(***************************************************************************)
\* column d of the recorded rows of the ranks in R
Column(R, d) ==
    UNION { { rk_events[r][k][d] : k \in 1 .. rk_count[r] } : r \in R }

\* the ranks that have recorded events
NonEmptyRanks == { r \in EventRanks : rk_count[r] > 0 }

\* C17: getLowerBounds / getUpperBounds return on every rank, for each of
\* the columns 0..2, the minimum / maximum over the rows below the count of
\* all ranks together (the identity of the reduction when no rank has a
\* row); the ranks without rows change nothing: the result is that over the
\* other ranks alone; and the calls leave the counts and the rows of every
\* rank as they were.
C17_BoundingBox ==
    /\ [](\A r \in EventRanks : \A d \in 1 .. 3 :
            /\ data_bounds_low # << >> =>
                  /\ data_bounds_low[r][d] =
                        SetMin(Column(EventRanks, d) \cup {DBL_MAX})
                  /\ data_bounds_low[r][d] =
                        SetMin(Column(NonEmptyRanks, d) \cup {DBL_MAX})
                  /\ Column(EventRanks, d) # {} =>
                        data_bounds_low[r][d] \in Column(EventRanks, d)
            /\ data_bounds_high # << >> =>
                  /\ data_bounds_high[r][d] =
                        SetMax(Column(EventRanks, d) \cup {-DBL_MAX})
                  /\ data_bounds_high[r][d] =
                        SetMax(Column(NonEmptyRanks, d) \cup {-DBL_MAX})
                  /\ Column(EventRanks, d) # {} =>
                        data_bounds_high[r][d] \in Column(EventRanks, d))
    /\ [][rk_events' = rk_events /\ rk_count' = rk_count]_vars

\* C17 witness: both calls have returned; rank A has no row, rank B has
\* one, and both hold, in rows they never recorded, coordinates outside the
\* bounds returned
C17_Witness ==
    /\ data_bounds_low # << >>
    /\ data_bounds_high # << >>
    /\ rk_count["A"] = 0
    /\ rk_count["B"] = 1
    /\ rk_events["A"][1][1] < data_bounds_low["A"][1]
    /\ rk_events["B"][2][1] < data_bounds_low["B"][1]
    /\ rk_events["A"][2][2] > data_bounds_high["A"][2]

(***************************************************************************)
(* Properties of the construction of the scan path, checked under LoadSpec.*)
(***************************************************************************)
\* the file has a line that is not a complete segment line
Malformed(f) == \E i \in 2 .. Len(f.text) : f.text[i].kind = "short"
\* the file has no segment line
NoSegmentLine(f) ==
    \A i \in 2 .. Len(f.text) : f.text[i].kind \notin {"segment", "short"}

\* C18: the construction of the scan path ends in a fatal error, and produces
\* no MovingBeam, when the file is missing, when it has no segment line, and
\* when one of its segment lines is malformed.
C18_LoadErrors ==
    (loadStatus # "none" /\
     (~pFile_.exists \/ NoSegmentLine(pFile_) \/ Malformed(pFile_)))
        => loadStatus = "error"

(***************************************************************************)
(* Properties of the run without sampling, checked under DisabledSpec.     *)
(***************************************************************************)
\* C19: without sampling every call of update and of write returns at once:
\* in no step of the run does n, the capacity, a row of events or tm_view
\* change, no call ends the program, and no file is written.
C19_DisabledFrame ==
    [][ /\ count' = count
        /\ capacity' = capacity
        /\ events' = events
        /\ tm_view' = tm_view
        /\ upc' = "idle"
        /\ files_written' = {} ]_vars

(***************************************************************************)
(* Properties of update on the larger grid, checked under GrowthSpec.      *)
(***************************************************************************)
\* C20: when update returns with a count n below the capacity it was called
\* with and n / capacity above 0.9, the capacity is 2 * n, events has that
\* many rows, n was not reset and the rows recorded before the call are as
\* they were.
C20_GrowthBeforeOverflow ==
    [][ (count' < capacity /\ 10 * count' > 9 * capacity)
            => /\ capacity' = 2 * count'
               /\ Len(events') = capacity'
               /\ count' >= count
               /\ \A r \in 1 .. count : events'[r] = events[r] ]_vars

(***************************************************************************)
(* Properties of one pass of the kernels, checked under Spec.              *)
(***************************************************************************)
InPass == upc \in {"pass1", "pass2"}
\* the instances that hold an index and have not yet written
Fetched == { i \in Cells : kpc[i] = "fetched" }
\* the rows written so far by the current pass
WrittenInPass ==
    { r \in 1 .. Len(writer) :
        /\ writer[r] # NoWriter
        /\ writer[r].step = step
        /\ writer[r].pass = (IF upc = "pass1" THEN 1 ELSE 2) }

\* C21: at every point of a pass, under every interleaving, the counter is
\* its value n0 at the start of the pass plus the number of crossings whose
\* instance has done its fetch_add; the indices held and the rows written
\* are distinct indices of n0 .. n0 + K - 1, one per crossing; a row is
\* written once in a pass, by the instance that was handed its index, with
\* the tm_view of that instance's node; and tm_view of a node is written by
\* the instance of that node only.
C21_KernelIsolation ==
    /\ [](InPass =>
            /\ count = count_old_host +
                 Cardinality({ i \in Crossings : kpc[i] # "start" })
            /\ \A i \in Fetched :
                  /\ i \in Crossings
                  /\ cur[i] \in count_old_host .. (count - 1)
            /\ \A i, j \in Fetched : i # j => cur[i] # cur[j]
            /\ \A r \in WrittenInPass :
                  /\ r - 1 \in count_old_host .. (count - 1)
                  /\ writer[r].cell \in Crossings
                  /\ kpc[writer[r].cell] = "done"
                  /\ \A i \in Fetched : cur[i] # r - 1
            /\ \A r1, r2 \in WrittenInPass :
                  writer[r1].cell = writer[r2].cell => r1 = r2
            /\ (\A i \in Cells : kpc[i] = "done") =>
                  count = count_old_host + Cardinality(Crossings))
    /\ [][ /\ \A r \in 1 .. Len(writer) :
                writer'[r] # writer[r] =>
                    /\ r \notin WrittenInPass
                    /\ \E i \in Fetched :
                          /\ cur[i] = r - 1
                          /\ kpc'[i] = "done"
                          /\ writer'[r].cell = i
                          /\ events'[r][4] = tm_view[i]
           /\ \A i \in Cells :
                tm_view'[i] # tm_view[i] =>
                    /\ kpc[i] = "start"
                    /\ kpc'[i] = "done"
                    /\ \A j \in Cells \ {i} :
                          tm_view'[j] = tm_view[j] /\ kpc'[j] = kpc[j] ]_vars

\* C21 witness: both nodes cross in a pass that found a row recorded; the
\* instance that was handed the first index has not written yet, the other
\* has written its row
C21_Witness ==
    /\ InPass
    /\ count_old_host >= 1
    /\ Crossings = Cells
    /\ \E i \in Fetched : cur[i] = count_old_host
    /\ WrittenInPass = {count_old_host + 2}

(***************************************************************************)
(* Further properties of the scan path, checked under BeamSpec.            *)
(***************************************************************************)
\* C22: after a query move( t ) with 0 < t <= end_time, whatever index the
\* queries before it left, the index is that of the segment with
\* time_end[i-1] < t <= time_end[i].
C22_ActiveSegment ==
    (lastT > 0 /\ lastT <= endTime_) =>
        /\ index_ >= 1
        /\ TimeEnd(index_ - 1) < lastT
        /\ lastT <= TimeEnd(index_)

(***************************************************************************)
(* The order of the parts of Layer::step, checked under HaloSpec.  The     *)
(* call of SolidificationData::update is the last statement of the step:   *)
(* it reads T and T0 as they are when gather has returned.                 *)
(***************************************************************************)
\* gather of a step has returned: update reads the views
SamplerReads == hpc = "idle" /\ hstep >= 1

\* C23: a step copies T to T0 (owned and ghost nodes, as they were when the
\* step before ended), then solves, then updates the boundaries, then
\* gathers, and only then is the field read by the sampler: what it reads
\* on the owned nodes is the solve from T0, and on the ghost nodes what
\* updateBoundaries and gather made of the solved field.
C23_StepOrder ==
    /\ [][ /\ (hstep' # hstep) =>
                (hpc = "idle" /\ hpc' = "solved" /\ hT0' = hT)
           /\ (hpc = "solved") => (hpc' = "bounded" /\ hT0' = hT0)
           /\ (hpc = "bounded") => (hpc' = "idle" /\ hT0' = hT0)
           /\ (hpc = "idle") => hpc' = "solved" ]_vars
    /\ [](SamplerReads =>
            /\ \E pw \in {0, BeamPower} : \E pos \in BeamNodes :
                 \A r \in Ranks : \A c \in OwnedSpace(GridOf(r)) :
                     hT[r][c] = SolveNode(hT0[r], pw, pos, c)
            /\ \A r \in Ranks : \A b \in Planes :
                 /\ \A c \in sharedIndexSpace(r, b) :
                       hT[r][c] = hT[neighborRank(r, b)][c]
                 /\ \A c \in boundaryIndexSpace(GridOf(r), b) :
                       /\ boundary_int[b] = 0 =>
                             hT[r][c] = boundary_values[b]
                       /\ boundary_int[b] = 1 =>
                             hT[r][c] = hT0[r][c] + boundary_values[b]
                       /\ boundary_int[b] = 2 =>
                             hT[r][c] = hT[r][Inward(b, c)])

\* C23 witness: the second step has ended; its solve changed a node that
\* rank B owns and rank A holds as a ghost, and T0 differs there from T
C23_Witness ==
    /\ SamplerReads
    /\ hstep = 2
    /\ hT["B"][<< 3, 1 >>] # hT0["B"][<< 3, 1 >>]
    /\ hT0["B"][<< 3, 1 >>] # initial_temperature
    /\ hT["A"][<< 3, 1 >>] = hT["B"][<< 3, 1 >>]

(***************************************************************************)
(* Properties of Solver::solve kernel by kernel, checked under SolveSpec.  *)
(***************************************************************************)
\* the temperature the solve gives the owned node c
Solved(c) == SolveNode(sT0, sbeam.power, sbeam.position, c)

\* C24: at every point of a solve, whatever instances have run and in
\* whatever order, a node whose instance has run holds the value computed
\* from T0 alone, every other node of T, the ghost nodes included, holds
\* what it held at the launch, and T0 is the copy taken at the launch; an
\* instance changes T at its own node only.
C24_SolveIndependence ==
    /\ [](spc = "solving" =>
            /\ sT0 = sT_start
            /\ \A c \in sdone : sT[c] = Solved(c)
            /\ \A c \in GhostedSpace(SolveGrid) \ sdone :
                  sT[c] = sT_start[c])
    /\ [][ (spc = "solving" /\ spc' = "solving") =>
              /\ sT0' = sT0
              /\ \E c \in OwnedSpace(SolveGrid) :
                    /\ sdone' = sdone \cup {c}
                    /\ \A d \in GhostedSpace(SolveGrid) \ {c} :
                          sT'[d] = sT[d] ]_vars

\* C24 witness: in the second step the instance of a node has run after
\* that of a neighbour which the solve changed, on a field that is not
\* uniform
C24_Witness ==
    /\ spc = "solving"
    /\ nsolve = 1
    /\ sdone = {<< 1, 1 >>, << 2, 1 >>}
    /\ sT[<< 1, 1 >>] # sT0[<< 1, 1 >>]
    /\ sT[<< 2, 1 >>] # sT0[<< 2, 1 >>]
    /\ sT0[<< 1, 1 >>] # sT0[<< 2, 1 >>]

\* C26: the two segments a query not past the end reads, path[i] and
\* path[i - 1] with i the index findIndex returned, are elements of path:
\* 0 <= i - 1 and i <= N - 1, on every loaded path, that of a file without a
\* segment line included, and after every sequence of queries.
C26_IndexSafety ==
    InPath => (0 <= index_ - 1 /\ index_ <= LastIndex)

\* C27: while the query times do not decrease, every query not past the end
\* of the path leaves the index, the position and the power that the same
\* query leaves on a beam just loaded, whose cached index is 0.
C27_CachedEqualsFresh ==
    (mono /\ InPath) =>
        /\ index_ = Fresh(lastT).index
        /\ position_ = Fresh(lastT).position
        /\ power_ = Fresh(lastT).power

(***************************************************************************)
(* Properties of the loaded path, checked under LoadSpec.                  *)
(***************************************************************************)
Loaded == loadStatus = "constructed"

\* the segments whose power is on
Powered == { i \in 1 .. LastIndex : path[i + 1].power > eps }

\* C25: in a loaded path the first segment ends at 0; a point (mode 1) ends
\* parameter after the segment before it, a line (mode 0) ends the distance
\* between the two positions divided by parameter after it; if no point has
\* a negative parameter and every line a positive one the end times do not
\* decrease; and endTime_ is the greatest end time of a segment with power,
\* 0 if there is none.
C25_PathTimes ==
    Loaded =>
        /\ TimeEnd(0) = 0
        /\ \A i \in 1 .. LastIndex :
              IF path[i + 1].mode = 1
              THEN TimeEnd(i) = TimeEnd(i - 1) + path[i + 1].parameter
              ELSE (TimeEnd(i) - TimeEnd(i - 1)) * path[i + 1].parameter =
                       Distance(PositionOf(i - 1), PositionOf(i))
        /\ (\A i \in 1 .. LastIndex :
               IF path[i + 1].mode = 1 THEN path[i + 1].parameter >= 0
               ELSE path[i + 1].parameter > 0)
              => \A i \in 1 .. LastIndex : TimeEnd(i - 1) <= TimeEnd(i)
        /\ endTime_ = SetMax({ TimeEnd(i) : i \in Powered } \cup {0})

\* C25 witness: a path of a line at speed 2, a point that takes time and a
\* last segment without power: endTime_ is the end of the second segment
C25_Witness ==
    /\ Loaded
    /\ LastIndex = 3
    /\ path[2].mode = 0 /\ path[2].parameter = 2 /\ TimeEnd(1) = 2
    /\ path[3].mode = 1 /\ path[3].power > eps /\ TimeEnd(2) = 6
    /\ path[4].power = 0
    /\ TimeEnd(3) > TimeEnd(2)
    /\ endTime_ = 6

(***************************************************************************)
(* Termination of update, checked under LiveSpec.                          *)
(***************************************************************************)
\* C28: a call of update makes one pass, or two when the first overflowed,
\* and returns.  In the second pass the buffer has 2 * (n0 + K) rows, the
\* count started again from n0, every index handed out is below the
\* capacity, so that every record is stored; the second pass is followed by
\* the return, without a further pass or resize.
C28_AtMostTwoPasses ==
    /\ [](upc = "pass2" =>
            /\ count_old_host + Cardinality(Crossings) > 0
            /\ capacity = 2 * (count_old_host + Cardinality(Crossings))
            /\ Len(events) = capacity
            /\ count_old_host <= count
            /\ count <= count_old_host + Cardinality(Crossings)
            /\ count < capacity
            /\ \A i \in Fetched : cur[i] < capacity)
    /\ [][ /\ (upc = "pass2") =>
                (upc' \in {"pass2", "idle"} /\ capacity' = capacity)
           /\ (upc = "pass1") => upc' \in {"pass1", "pass2", "idle"}
           /\ (upc = "idle") => upc' = "pass1"
           /\ (upc = "pass2" /\ upc' = "idle") =>
                \A r \in NewRows : r \in WrittenInPass ]_vars
    /\ (upc = "pass1") ~> (upc = "idle")

\* C28 witness: a second pass that found a row recorded before the call and
\* has stored its record again, in a buffer larger than that of the first
C28_Witness ==
    /\ upc = "pass2"
    /\ count_old_host >= 1
    /\ capacity > cap0
    /\ WrittenInPass = {count_old_host + 1}

(***************************************************************************)
(* The interpolation factor, checked under Spec.                           *)
(***************************************************************************)
\* C29: the factor m computed for a solidification crossing lies in [0, 1)
\* and that of a melt crossing in (0, 1] before it is clamped; the ts of a
\* row lies in (t - dt, t] and the tm stored by a melt crossing in
\* [t - dt, t), t being the time of the step of the crossing; and the
\* cooling rate of a row is positive.
C29_NoClamping ==
    Returned =>
        /\ \A i \in Crossings :
              /\ 0 <= InterpFactor(T[i], T0[i])
              /\ InterpFactor(T[i], T0[i]) < MScale
        /\ \A i \in Melts :
              /\ 0 < InterpFactor(T[i], T0[i])
              /\ InterpFactor(T[i], T0[i]) <= MScale
        /\ \A r \in NewRows :
              /\ time - dt_ < events[r][5]
              /\ events[r][5] <= time
              /\ events[r][6] > 0
        /\ \A i \in Melts :
              /\ time - dt_ <= tm_view[i]
              /\ tm_view[i] < time

(***************************************************************************)
(* Properties of the constructors of Boundary, checked under TypesSpec.    *)
(***************************************************************************)
KnownTypes == {"dirichlet", "neumann", "adiabatic"}

\* C30: when one of the strings given is not dirichlet, neumann or
\* adiabatic the constructor fails with an error: no Boundary is made of
\* such strings.
C30_RejectUnknownType ==
    (bstatus # "none" /\ \E b \in Planes : boundary_types[b] \notin KnownTypes)
        => bstatus = "error"

====
